---- MODULE Spec2Model ----
(***************************************************************************)
(* A model of finance-news-aggregator-rs: the RSS/XML feed parser          *)
(* (src/src/parser.rs), the article record (src/src/types.rs) and the      *)
(* fetch orchestration of the news sources (src/src/news_source/*.rs).     *)
(*                                                                         *)
(* Strings.  A Rust String is modelled as a sequence of characters.  An    *)
(* ASCII character is the one-character TLA+ string holding it; any other  *)
(* character is the token "<UTF-8 width>+<code point in decimal>".         *)
(* S converts a TLA+ string literal into that representation.         *)
(* Option<String> is a sequence of length 0 (None) or 1 (Some(v)).         *)
(***************************************************************************)
EXTENDS Integers, Sequences, FiniteSets, TLC

VARIABLES
    \* ---- NewsParser (parser.rs:35-38) and the locals of parse_response
    client_type,      \* NewsParser.client_type
    articles,         \* parse_response: let mut articles
    current_article,  \* parse_response: let mut current_article
    current_tag,      \* parse_response: let mut current_tag
    in_item,          \* parse_response: let mut in_item
    ev,               \* the value reader.read_event_into returned last
    n_events,         \* how many events the reader has produced
    presult,          \* what parse_response returned to its caller
    hung,             \* parse_response is stuck in a loop that never ends
    vocab,            \* the element names the document being read uses
    routed,           \* (tag, value) pairs handed to set_article_field
                      \* since the last <item> start, in order
    emitted,          \* for each pushed article, the value of routed then
    \* ---- clean_tag_name applied to one input
    raw_tag,          \* the argument of clean_tag_name
    pieces,           \* the pieces raw_tag was put together from
    cleaned,          \* its result, <<>> before the call
    \* ---- one fetch-by-topic call on a news source
    source,           \* the news source the call is made on
    method,           \* the method called: fetch_topic, fetch_feed, news_feed
    topic,            \* its argument
    fpc,              \* where the call is: start, send, text, parse, stamp,
                      \* done, hung
    url,              \* let url, <<>> before it is built
    requests,         \* the URLs handed to client.get(url).send(), in order
    net,              \* what the HTTP client did: idle, sent, send_failed,
                      \* read, read_failed
    content,          \* let content = response.text().await?, <<>> before
    parsed,           \* what parser.parse_response(&content) returned
    fresult,          \* what the call returned to its caller
    steps,            \* the steps the call has completed, in order
    \* ---- decode_unicode_entities applied to one input
    sweep_text,       \* the argument of decode_unicode_entities
    sweep_out,        \* its outcome, <<>> before the call
    \* ---- preprocess_unicode_entities applied to one input
    pre_content,      \* the argument of preprocess_unicode_entities
    preprocessed,     \* its result, <<>> before the call
    \* ---- set_article_field applied to one article
    field_calls,      \* the (tag, value) pairs passed so far, in order
    field_article,    \* the article they were applied to
    \* ---- parse_response applied to one whole document
    document,         \* the events the reader produces for the document
    document_result,  \* what parse_response returned
    \* ---- one NewsParser shared by several parse_response calls
    calls,            \* for each call: its document, how many events it
                      \* has read, its locals and its result
    \* ---- NewsClient (news_client.rs:12-22)
    news_client,      \* the seven Option<source client> fields
    accessed          \* the accessors called on it so far, in order

parserVars == <<client_type, articles, current_article, current_tag, in_item,
                ev, n_events, presult, hung, vocab, routed, emitted>>
cleanVars == <<raw_tag, pieces, cleaned>>
fetchVars == <<source, method, topic, fpc, url, requests, net, content, parsed,
               fresult, steps>>
pureVars == <<sweep_text, sweep_out, pre_content, preprocessed, field_calls,
              field_article, document, document_result, calls, news_client,
              accessed>>
vars == <<parserVars, cleanVars, fetchVars, pureVars>>

----------------------------------------------------------------------------
(* Strings *)

\* The characters of a TLA+ string literal, one per element.
S(str) == [i \in 1..Len(str) |-> SubSeq(str, i, i)]

\* The strings the code compares with.
TITLE == S("title")
LINK == S("link")
DESCRIPTION == S("description")
PUBDATE == S("pubdate")
GUID == S("guid")
CATEGORY == S("category")
AUTHOR == S("author")
CREATOR == S("creator")
COLON == S(":")
SEMICOLON == S(";")
HEX_REF == S("&#x")
NUM_REF == S("&#")
ITEM == S("item")
SOURCE == S("source")

\* Strings the properties name.
FOO == S("foo")
WSJ == S("wsj")
HELLO_WORLD == S("HelloWorld")
DC_CREATOR == S("dc:creator")

None == <<>>
Some(v) == <<v>>

\* str::starts_with at offset i (1-based): does pat occur in s at i?
OccursAt(s, pat, i) ==
    /\ i + Len(pat) - 1 <= Len(s)
    /\ SubSeq(s, i, i + Len(pat) - 1) = pat

\* str::find: the 1-based index of the first occurrence of pat, 0 if none.
Find(s, pat) ==
    LET hits == {i \in 1..Len(s) : OccursAt(s, pat, i)}
    IN IF hits = {} THEN 0 ELSE CHOOSE i \in hits : \A j \in hits : i <= j

\* str::rfind: the 1-based index of the last occurrence of pat, 0 if none.
RFind(s, pat) ==
    LET hits == {i \in 1..Len(s) : OccursAt(s, pat, i)}
    IN IF hits = {} THEN 0 ELSE CHOOSE i \in hits : \A j \in hits : i >= j

\* str::replace(pat, rep): the non-overlapping occurrences of pat, found left
\* to right in one pass, each replaced by rep (pat is never empty here).
RECURSIVE Replace(_, _, _)
Replace(s, pat, rep) ==
    LET i == Find(s, pat)
    IN IF i = 0 THEN s
       ELSE SubSeq(s, 1, i - 1) \o rep
            \o Replace(SubSeq(s, i + Len(pat), Len(s)), pat, rep)

UPPER == S("ABCDEFGHIJKLMNOPQRSTUVWXYZ")
LOWER == S("abcdefghijklmnopqrstuvwxyz")

\* The lower-case letter of each upper-case ASCII letter.
LowerOf == [c \in {UPPER[k] : k \in 1..26} |->
               LOWER[CHOOSE k \in 1..26 : UPPER[k] = c]]

\* char::to_lowercase on the characters the model uses (ASCII letters).
LowerChar(c) == IF c \in DOMAIN LowerOf THEN LowerOf[c] ELSE c

\* str::to_lowercase
to_lowercase(s) == [i \in 1..Len(s) |-> LowerChar(s[i])]

----------------------------------------------------------------------------
(* NewsParser::new: the namespace table, parser.rs:55-113 *)

NS_DOWJONES == S("http://dowjones.net/rss/")
NS_CONTENT == S("http://purl.org/rss/1.0/modules/content/")
NS_MRSS == S("http://search.yahoo.com/mrss/")
NS_CNBC == S("http://search.cnbc.com/rss/2.0/modules/siteContentMetadata")
NS_DC == S("http://purl.org/dc/elements/1.1/")
NS_NASDAQ == S("http://nasdaq.com/reference/feeds/1.0")
NS_FEEDBURNER == S("http://rssnamespace.org/feedburner/ext/1.0")
NS_SEEKINGALPHA == S("https://seekingalpha.com/api/1.0")

\* self.namespaces: source identifier -> Vec of namespace URIs.
namespaces ==
    (S("wsj") :> <<NS_DOWJONES, NS_CONTENT, NS_MRSS>>)
    @@ (S("cnbc") :> <<NS_CNBC>>)
    @@ (S("nasdaq") :> <<NS_DC, NS_NASDAQ>>)
    @@ (S("market_watch") :> <<NS_FEEDBURNER>>)
    @@ (S("sp_global") :> <<>>)
    @@ (S("seeking_alpha") :> <<NS_MRSS, NS_SEEKINGALPHA>>)
    @@ (S("cnn_finance") :> <<NS_FEEDBURNER, NS_MRSS>>)
    @@ (S("yahoo") :> <<NS_MRSS>>)

\* The "for namespace in namespaces" loop of clean_tag_name.
RECURSIVE StripNamespaces(_, _)
StripNamespaces(tag, nss) ==
    IF nss = <<>> THEN tag
    ELSE StripNamespaces(Replace(tag, Head(nss), <<>>), Tail(nss))

\* A faulty StripPrefix: find instead of rfind, cutting at the first colon.
StripPrefix_first(tag) ==
    LET colon_pos == Find(tag, COLON)
    IN IF colon_pos = 0 THEN tag ELSE SubSeq(tag, colon_pos + 1, Len(tag))

\* The "if let Some(colon_pos) = clean_tag.rfind(':')" step.
StripPrefix(tag) ==
    LET colon_pos == RFind(tag, COLON)
    IN IF colon_pos = 0 THEN tag ELSE SubSeq(tag, colon_pos + 1, Len(tag))

\* NewsParser::clean_tag_name for the parser of source identifier ct.
clean_tag_name(ct, tag) ==
    StripPrefix(IF ct \in DOMAIN namespaces
                THEN StripNamespaces(tag, namespaces[ct])
                ELSE tag)

----------------------------------------------------------------------------
(* Characters and numbers *)

\* The printable ASCII characters, code points 32..126 in order.  A TLA+
\* string cannot hold the grave accent (96), which is written as its token.
ASCII ==
    S(" !\"#$%&'()*+,-./0123456789:;<=>?@ABCDEFGHIJKLMNOPQRSTUVWXYZ[\\]^_")
    \o <<"1+96">> \o S("abcdefghijklmnopqrstuvwxyz{|}~")

\* The number of bytes of the UTF-8 encoding of code point cp.
Utf8Width(cp) ==
    IF cp < 128 THEN 1 ELSE IF cp < 2048 THEN 2 ELSE IF cp < 65536 THEN 3 ELSE 4

\* The character of code point cp (char::to_string): printable ASCII is the
\* character itself, any other the token "<UTF-8 width>+<code point>".
Chr(cp) ==
    IF cp >= 32 /\ cp <= 126 THEN ASCII[cp - 31]
    ELSE ToString(Utf8Width(cp)) \o "+" \o ToString(cp)

\* The number of bytes character c takes in a Rust String.
Utf8Len(c) ==
    IF Len(c) = 1 THEN 1
    ELSE CHOOSE w \in 1..4 : ToString(w) = SubSeq(c, 1, 1)

\* The byte offset (0-based) at which the character at 1-based index i starts.
RECURSIVE ByteOffset(_, _)
ByteOffset(s, i) ==
    IF i <= 1 THEN 0 ELSE ByteOffset(s, i - 1) + Utf8Len(s[i - 1])

DIGITS_LOWER == S("0123456789abcdef")
DIGITS_UPPER == S("0123456789ABCDEF")

\* char::to_digit(radix): the digit's value, -1 if c is no digit of the radix.
DigitVal(c, radix) ==
    LET ks == {k \in 1..radix : DIGITS_LOWER[k] = c \/ DIGITS_UPPER[k] = c}
    IN IF ks = {} THEN -1 ELSE (CHOOSE k \in ks : TRUE) - 1

\* No code point is above 0x10FFFF; the accumulator saturates just above it,
\* which stands for every value char::from_u32 rejects as too large and for
\* the PosOverflow error of the parse alike (both leave no character).
RECURSIVE Accumulate(_, _, _)
Accumulate(acc, digits, radix) ==
    IF digits = <<>> THEN acc
    ELSE LET v == acc * radix + DigitVal(Head(digits), radix)
         IN Accumulate(IF v > 1114111 THEN 1114112 ELSE v, Tail(digits), radix)

\* u32::from_str_radix / str::parse::<u32>: an optional "+", then one or more
\* digits.  -1 stands for Err.
ParseU32(str, radix) ==
    LET body == IF str # <<>> /\ Head(str) = "+" THEN Tail(str) ELSE str
    IN IF body = <<>> \/ \E i \in 1..Len(body) : DigitVal(body[i], radix) = -1
       THEN -1
       ELSE Accumulate(0, body, radix)

\* char::from_u32(cp) is Some: cp is a Unicode scalar value.
IsChar(cp) == cp >= 0 /\ cp <= 1114111 /\ ~(cp >= 55296 /\ cp <= 57343)

----------------------------------------------------------------------------
(* NewsParser::decode_unicode_entities, parser.rs:284-337 *)

\* The entity starting at index start of result when its first ";" is found
\* end characters further: &result[start..start + end + 1].
EntityAt(result, start) ==
    LET end == Find(SubSeq(result, start, Len(result)), SEMICOLON)
    IN IF end = 0 THEN <<>> ELSE SubSeq(result, start, start + end - 1)

\* What one entity is replaced by: its character, or nothing when the number
\* does not parse or is no character.
Decoded(digits, radix) ==
    LET cp == ParseU32(digits, radix)
    IN IF cp # -1 /\ IsChar(cp) THEN <<Chr(cp)>> ELSE <<>>

\* The first while loop: hexadecimal references.
RECURSIVE HexLoop(_)
HexLoop(result) ==
    LET start == Find(result, HEX_REF)
        entity == EntityAt(result, start)
    IN IF start = 0 THEN result
       ELSE IF entity = <<>> THEN result
       ELSE HexLoop(Replace(result, entity,
                            Decoded(SubSeq(entity, 4, Len(entity) - 1), 16)))

\* A faulty DecimalLoop: the loop is left out.
DecimalLoop_skipped(result) == [hang |-> FALSE, text |-> result]

\* The second while loop: decimal references.  The branch that skips a
\* hexadecimal reference leaves result and therefore start unchanged, so when
\* it continues the loop repeats the same iteration forever: hang.
RECURSIVE DecimalLoop(_)
DecimalLoop(result) ==
    LET start == Find(result, NUM_REF)
        \* result.chars().nth(start + 2), start being a byte offset
        nth == ByteOffset(result, start) + 3
        entity == EntityAt(result, start)
    IN IF start = 0 THEN [hang |-> FALSE, text |-> result]
       ELSE IF nth <= Len(result) /\ result[nth] = "x"
       THEN IF Find(SubSeq(result, start + 1, Len(result)), NUM_REF) # 0
            THEN [hang |-> TRUE, text |-> result]
            ELSE [hang |-> FALSE, text |-> result]
       ELSE IF entity = <<>> THEN [hang |-> FALSE, text |-> result]
       ELSE DecimalLoop(Replace(result, entity,
                                Decoded(SubSeq(entity, 3, Len(entity) - 1), 10)))

decode_unicode_entities(text) == DecimalLoop(HexLoop(text))

----------------------------------------------------------------------------
(* NewsArticle, types.rs:7-34 *)

\* NewsArticle::new
NewsArticle_new ==
    [title |-> None, link |-> None, description |-> None, pub_date |-> None,
     guid |-> None, category |-> None, author |-> None, source |-> None,
     extra_fields |-> <<>>]

FixedFields == {"title", "link", "description", "pub_date", "guid", "category", "author"}

----------------------------------------------------------------------------
(* NewsParser::set_article_field, parser.rs:346-383 *)

\* A faulty AppendTo: the new text replaces what the field held.
AppendTo_overwrite(field, value) == Some(value)

\* "if let Some(existing) = &field { Some(existing + value) } else { Some(value) }"
AppendTo(field, value) ==
    IF field # None THEN Some(field[1] \o value) ELSE Some(value)

\* A faulty UpsertExtra: insert always, dropping the value the key had.
UpsertExtra_overwrite(extra_fields, tag, value) ==
    [k \in DOMAIN extra_fields \cup {tag} |->
        IF k = tag THEN value ELSE extra_fields[k]]

\* The "_ =>" arm: insert the key, or append to the value it has.
UpsertExtra(extra_fields, tag, value) ==
    IF tag \in DOMAIN extra_fields
    THEN [extra_fields EXCEPT ![tag] = @ \o value]
    ELSE extra_fields @@ (tag :> value)

\* A faulty set_article_field: the tag is matched as it is spelled.
set_article_field_exact(article, tag, value) ==
    CASE tag = TITLE -> [article EXCEPT !.title = AppendTo(@, value)]
      [] tag = LINK -> [article EXCEPT !.link = AppendTo(@, value)]
      [] tag = DESCRIPTION ->
             [article EXCEPT !.description = AppendTo(@, value)]
      [] tag = PUBDATE -> [article EXCEPT !.pub_date = Some(value)]
      [] tag = GUID -> [article EXCEPT !.guid = Some(value)]
      [] tag = CATEGORY -> [article EXCEPT !.category = Some(value)]
      [] tag \in {AUTHOR, CREATOR} ->
             [article EXCEPT !.author = Some(value)]
      [] OTHER ->
             [article EXCEPT
                 !.extra_fields = UpsertExtra(@, tag, value)]

\* A faulty set_article_field: a <source> element fills the source field.
set_article_field_with_source(article, tag, value) ==
    LET t == to_lowercase(tag)
    IN CASE t = TITLE -> [article EXCEPT !.title = AppendTo(@, value)]
         [] t = LINK -> [article EXCEPT !.link = AppendTo(@, value)]
         [] t = DESCRIPTION ->
                [article EXCEPT !.description = AppendTo(@, value)]
         [] t = PUBDATE -> [article EXCEPT !.pub_date = Some(value)]
         [] t = GUID -> [article EXCEPT !.guid = Some(value)]
         [] t = CATEGORY -> [article EXCEPT !.category = Some(value)]
         [] t \in {AUTHOR, CREATOR} ->
                [article EXCEPT !.author = Some(value)]
         [] t = SOURCE -> [article EXCEPT !.source = Some(value)]
         [] OTHER ->
                [article EXCEPT
                    !.extra_fields = UpsertExtra(@, tag, value)]

\* A faulty set_article_field: pubDate, guid, category and author accumulate
\* like title does.
set_article_field_accumulating(article, tag, value) ==
    LET t == to_lowercase(tag)
    IN CASE t = TITLE -> [article EXCEPT !.title = AppendTo(@, value)]
         [] t = LINK -> [article EXCEPT !.link = AppendTo(@, value)]
         [] t = DESCRIPTION ->
                [article EXCEPT !.description = AppendTo(@, value)]
         [] t = PUBDATE -> [article EXCEPT !.pub_date = AppendTo(@, value)]
         [] t = GUID -> [article EXCEPT !.guid = AppendTo(@, value)]
         [] t = CATEGORY -> [article EXCEPT !.category = AppendTo(@, value)]
         [] t \in {AUTHOR, CREATOR} ->
                [article EXCEPT !.author = AppendTo(@, value)]
         [] OTHER ->
                [article EXCEPT
                    !.extra_fields = UpsertExtra(@, tag, value)]

set_article_field(article, tag, value) ==
    LET t == to_lowercase(tag)
    IN CASE t = TITLE -> [article EXCEPT !.title = AppendTo(@, value)]
         [] t = LINK -> [article EXCEPT !.link = AppendTo(@, value)]
         [] t = DESCRIPTION ->
                [article EXCEPT !.description = AppendTo(@, value)]
         [] t = PUBDATE -> [article EXCEPT !.pub_date = Some(value)]
         [] t = GUID -> [article EXCEPT !.guid = Some(value)]
         [] t = CATEGORY -> [article EXCEPT !.category = Some(value)]
         [] t \in {AUTHOR, CREATOR} ->
                [article EXCEPT !.author = Some(value)]
         [] OTHER ->
                [article EXCEPT
                    !.extra_fields = UpsertExtra(@, tag, value)]

----------------------------------------------------------------------------
(* Inputs of the parser *)

\* The longest event stream the reader produces before end-of-document.
MaxEvents == 5

\* The feeds read: the source identifier the parser was built for and the
\* element names (besides item) the document uses.
Feeds ==
    { [client |-> WSJ,
       vocab |-> {TITLE, DESCRIPTION, S("http://dowjones.net/rss/link")}],
      [client |-> S("cnbc"),
       vocab |-> {S("pubDate"), GUID, CATEGORY}],
      [client |-> S("nasdaq"),
       vocab |-> {AUTHOR, DC_CREATOR,
                  S("http://purl.org/dc/elements/1.1/creator")}],
      [client |-> S("generic"),
       vocab |-> {FOO, TITLE, S("media:content")}],
      [client |-> S("yahoo"),
       vocab |-> {SOURCE}] }

\* Text events: trim_text(true) leaves no surrounding whitespace and drops
\* empty text, so every payload is non-empty and trimmed.
TextPayloads == {S("Hello"), S("&#66;"), S("&#x41 &#65")}

\* CDATA events: the bytes between <![CDATA[ and ]]>.
CDataPayloads == {S("World"), S("&#66;")}

Event(kind, name, text) == [kind |-> kind, name |-> name, text |-> text]

\* Result<Vec<NewsArticle>>, and the value standing for "not returned yet".
Running == [kind |-> "Running"]
Ok(v) == [kind |-> "Ok", articles |-> v]
Err(e) == [kind |-> "Err", error |-> e]

----------------------------------------------------------------------------
(* NewsParser::parse_response, parser.rs:149-242.                          *)
(* content is a &str, so every tag name, text run and CDATA section is     *)
(* valid UTF-8: the from_utf8 / decode failure arms (lines 168-171,        *)
(* 185-195, 209-212, 221-224) cannot be taken and are not modelled.        *)
(*                                                                         *)
(* A frame holds the locals of one call: articles, current_article,        *)
(* current_tag, in_item, and hung (the call is stuck in a loop).           *)

\* The locals after "let mut ..." (lines 156-160).
NewFrame ==
    [articles |-> <<>>, current_article |-> NewsArticle_new,
     current_tag |-> <<>>, in_item |-> FALSE, hung |-> FALSE]

\* A faulty on_start: an <item> start keeps the article being filled.
on_start_keep(ct, f, name) ==
    LET tag == clean_tag_name(ct, name)
    IN IF tag = ITEM
       THEN [f EXCEPT !.current_tag = tag, !.in_item = TRUE]
       ELSE [f EXCEPT !.current_tag = tag]

\* A faulty on_start: item is recognized in any letter case.
on_start_any_case(ct, f, name) ==
    LET tag == clean_tag_name(ct, name)
    IN IF to_lowercase(tag) = ITEM
       THEN [f EXCEPT !.current_tag = tag, !.in_item = TRUE,
                      !.current_article = NewsArticle_new]
       ELSE [f EXCEPT !.current_tag = tag]

\* A faulty on_start: an <item> start leaves no current tag.
on_start_item_untagged(ct, f, name) ==
    LET tag == clean_tag_name(ct, name)
    IN IF tag = ITEM
       THEN [f EXCEPT !.current_tag = <<>>, !.in_item = TRUE,
                      !.current_article = NewsArticle_new]
       ELSE [f EXCEPT !.current_tag = tag]

\* Ok(Event::Start(e)), lines 164-179.
on_start(ct, f, name) ==
    LET tag == clean_tag_name(ct, name)
    IN IF tag = ITEM
       THEN [f EXCEPT !.current_tag = tag, !.in_item = TRUE,
                      !.current_article = NewsArticle_new]
       ELSE [f EXCEPT !.current_tag = tag]

\* A faulty on_text: the list holds the article it pushed last by reference,
\* so a later write to the open article shows in the list.
on_text_shared(f, text) ==
    IF f.in_item /\ f.current_tag # <<>>
    THEN LET swept == decode_unicode_entities(text)
             n == Len(f.articles)
         IN IF swept.hang
            THEN [f EXCEPT !.hung = TRUE]
            ELSE [f EXCEPT
                    !.current_article =
                        set_article_field(@, f.current_tag, swept.text),
                    !.articles =
                        IF n = 0 THEN f.articles
                        ELSE [f.articles EXCEPT
                                ![n] = set_article_field(@, f.current_tag,
                                                         swept.text)]]
    ELSE f

\* Ok(Event::Text(e)), lines 180-203: the decoded text is swept for numeric
\* character references and routed to the field of the current tag.
on_text(f, text) ==
    IF f.in_item /\ f.current_tag # <<>>
    THEN LET swept == decode_unicode_entities(text)
         IN IF swept.hang
            THEN [f EXCEPT !.hung = TRUE]
            ELSE [f EXCEPT !.current_article =
                               set_article_field(@, f.current_tag, swept.text)]
    ELSE f

\* A faulty on_cdata: the inside-item flag is not consulted.
on_cdata_anywhere(f, text) ==
    IF f.current_tag # <<>>
    THEN [f EXCEPT !.current_article = set_article_field(@, f.current_tag, text)]
    ELSE f

\* Ok(Event::CData(e)), lines 204-216: the bytes are routed as they are.
on_cdata(f, text) ==
    IF f.in_item /\ f.current_tag # <<>>
    THEN [f EXCEPT !.current_article = set_article_field(@, f.current_tag, text)]
    ELSE f

\* A faulty Push: an article with neither title nor description is left out.
Push_if_content(list, article) ==
    IF article.title = None /\ article.description = None
    THEN list ELSE Append(list, article)

\* A faulty Push: the article is inserted at the front.
Push_front(list, article) == <<article>> \o list

\* articles.push(current_article.clone()), line 229.
Push(list, article) == Append(list, article)

\* A faulty on_end: the current tag is cleared at </item> only.
on_end_keep_tag(ct, f, name) ==
    LET clean_tag == clean_tag_name(ct, name)
    IN IF clean_tag = ITEM /\ f.in_item
       THEN [f EXCEPT !.articles = Push(@, f.current_article),
                      !.in_item = FALSE, !.current_tag = <<>>]
       ELSE f

\* A faulty on_end: every </item> emits, whether an item is open or not.
on_end_unguarded(ct, f, name) ==
    LET clean_tag == clean_tag_name(ct, name)
    IN IF clean_tag = ITEM
       THEN [f EXCEPT !.articles = Push(@, f.current_article),
                      !.in_item = FALSE, !.current_tag = <<>>]
       ELSE [f EXCEPT !.current_tag = <<>>]

\* Ok(Event::End(e)), lines 217-233.
on_end(ct, f, name) ==
    LET clean_tag == clean_tag_name(ct, name)
    IN IF clean_tag = ITEM /\ f.in_item
       THEN [f EXCEPT !.articles = Push(@, f.current_article),
                      !.in_item = FALSE, !.current_tag = <<>>]
       ELSE [f EXCEPT !.current_tag = <<>>]

\* A faulty on_eof: an item still open at end-of-document is emitted.
on_eof_flush(f) ==
    Ok(IF f.in_item THEN Append(f.articles, f.current_article) ELSE f.articles)

\* Ok(Event::Eof) => break, line 234, then Ok(articles), line 241.
on_eof(f) == Ok(f.articles)

\* A faulty on_err: the error ends the loop like end-of-document does.
on_err_partial(f) == Ok(f.articles)

\* Err(e) => return Err(FanError::XmlParsing(e)), line 235.
on_err(f) == Err("XmlParsing")

\* The value set_article_field receives for a text or CDATA event.
Routed(kind, text) ==
    IF kind = "Text" THEN decode_unicode_entities(text).text ELSE text

----------------------------------------------------------------------------
(* parse_response as a state machine: one step per event read *)

Frame ==
    [articles |-> articles, current_article |-> current_article,
     current_tag |-> current_tag, in_item |-> in_item, hung |-> hung]

SetFrame(f) ==
    /\ articles' = f.articles
    /\ current_article' = f.current_article
    /\ current_tag' = f.current_tag
    /\ in_item' = f.in_item
    /\ hung' = f.hung

\* The loop is still reading: no return yet, not stuck.
Reading == presult = Running /\ ~hung

StartEvent ==
    /\ Reading /\ n_events < MaxEvents
    /\ \E name \in vocab \cup {ITEM} :
        /\ ev' = Event("Start", name, <<>>)
        /\ SetFrame(on_start(client_type, Frame, name))
        /\ routed' = IF clean_tag_name(client_type, name) = ITEM
                     THEN <<>> ELSE routed
    /\ n_events' = n_events + 1
    /\ UNCHANGED <<client_type, presult, vocab, emitted>>

TextEvent ==
    /\ Reading /\ n_events < MaxEvents
    /\ \E text \in TextPayloads :
        /\ ev' = Event("Text", <<>>, text)
        /\ SetFrame(on_text(Frame, text))
        /\ routed' = IF in_item /\ current_tag # <<>>
                        /\ ~decode_unicode_entities(text).hang
                     THEN Append(routed, <<current_tag, Routed("Text", text)>>)
                     ELSE routed
    /\ n_events' = n_events + 1
    /\ UNCHANGED <<client_type, presult, vocab, emitted>>

CDataEvent ==
    /\ Reading /\ n_events < MaxEvents
    /\ \E text \in CDataPayloads :
        /\ ev' = Event("CData", <<>>, text)
        /\ SetFrame(on_cdata(Frame, text))
        /\ routed' = IF in_item /\ current_tag # <<>>
                     THEN Append(routed, <<current_tag, Routed("CData", text)>>)
                     ELSE routed
    /\ n_events' = n_events + 1
    /\ UNCHANGED <<client_type, presult, vocab, emitted>>

EndEvent ==
    /\ Reading /\ n_events < MaxEvents
    /\ \E name \in vocab \cup {ITEM} :
        /\ ev' = Event("End", name, <<>>)
        /\ SetFrame(on_end(client_type, Frame, name))
        /\ emitted' = IF clean_tag_name(client_type, name) = ITEM /\ in_item
                      THEN Append(emitted, routed) ELSE emitted
    /\ n_events' = n_events + 1
    /\ UNCHANGED <<client_type, presult, vocab, routed>>

\* The "_ => {}" arm, line 236: an empty element, a comment, a declaration,
\* a processing instruction or a doctype.
OtherEvent ==
    /\ Reading /\ n_events < MaxEvents
    /\ ev' = Event("Other", <<>>, <<>>)
    /\ n_events' = n_events + 1
    /\ UNCHANGED <<client_type, articles, current_article, current_tag, in_item,
                   presult, hung, vocab, routed, emitted>>

EofEvent ==
    /\ Reading
    /\ ev' = Event("Eof", <<>>, <<>>)
    /\ presult' = on_eof(Frame)
    /\ UNCHANGED <<client_type, articles, current_article, current_tag, in_item,
                   n_events, hung, vocab, routed, emitted>>

ErrEvent ==
    /\ Reading
    /\ ev' = Event("Err", <<>>, <<>>)
    /\ presult' = on_err(Frame)
    /\ UNCHANGED <<client_type, articles, current_article, current_tag, in_item,
                   n_events, hung, vocab, routed, emitted>>

\* clean_tag_name is not being exercised on its own.
CleanIdle == raw_tag = <<>> /\ pieces = <<>> /\ cleaned = None

\* NewsParser::new(client) followed by the first lines of parse_response.
ParserInit ==
    /\ \E feed \in Feeds : client_type = feed.client /\ vocab = feed.vocab
    /\ articles = NewFrame.articles
    /\ current_article = NewFrame.current_article
    /\ current_tag = NewFrame.current_tag
    /\ in_item = NewFrame.in_item
    /\ hung = NewFrame.hung
    /\ ev = Event("None", <<>>, <<>>)
    /\ n_events = 0
    /\ presult = Running
    /\ routed = <<>>
    /\ emitted = <<>>

\* No fetch-by-topic call is being made.
FetchIdle ==
    /\ source = "none" /\ method = "none" /\ topic = <<>>
    /\ fpc = "idle" /\ url = None /\ requests = <<>> /\ net = "idle"
    /\ content = None /\ parsed = Running /\ fresult = Running
    /\ steps = <<>>

\* The functions below are not being exercised on their own.
SweepIdle == sweep_text = <<>> /\ sweep_out = None
PreIdle == pre_content = <<>> /\ preprocessed = None
FieldIdle == field_calls = <<>> /\ field_article = NewsArticle_new
DocIdle == document = <<>> /\ document_result = Running
SharedIdle == calls = <<>>

\* NewsClient::with_config (news_client.rs:40-50): every source client None.
NewsClient_new ==
    [wsj_client |-> None, cnbc_client |-> None, nasdaq_client |-> None,
     market_watch_client |-> None, seeking_alpha_client |-> None,
     cnn_finance_client |-> None, yahoo_finance_client |-> None]

\* No accessor of a NewsClient is being called.
ClientIdle == news_client = NewsClient_new /\ accessed = <<>>

PureIdle ==
    SweepIdle /\ PreIdle /\ FieldIdle /\ DocIdle /\ SharedIdle /\ ClientIdle

Init == ParserInit /\ CleanIdle /\ FetchIdle /\ PureIdle

Next ==
    \/ StartEvent /\ UNCHANGED <<cleanVars, fetchVars, pureVars>>
    \/ TextEvent /\ UNCHANGED <<cleanVars, fetchVars, pureVars>>
    \/ CDataEvent /\ UNCHANGED <<cleanVars, fetchVars, pureVars>>
    \/ EndEvent /\ UNCHANGED <<cleanVars, fetchVars, pureVars>>
    \/ OtherEvent /\ UNCHANGED <<cleanVars, fetchVars, pureVars>>
    \/ EofEvent /\ UNCHANGED <<cleanVars, fetchVars, pureVars>>
    \/ ErrEvent /\ UNCHANGED <<cleanVars, fetchVars, pureVars>>

Spec == Init /\ [][Next]_vars

----------------------------------------------------------------------------
(* clean_tag_name on its own: one call on a raw tag name *)

\* The longest raw tag name, in pieces.
MaxPieces == 2

\* Every source identifier of the table, and one that is not in it.
ClientTypes == DOMAIN namespaces \cup {S("generic")}

\* The namespace URIs of the table.
NamespaceURIs ==
    {NS_DOWJONES, NS_CONTENT, NS_MRSS, NS_CNBC, NS_DC, NS_NASDAQ,
     NS_FEEDBURNER, NS_SEEKINGALPHA}

\* What raw tag names are put together from: namespace URIs, prefixes and
\* local names.
Pieces ==
    NamespaceURIs \cup {S("dc:"), S("media:"), TITLE, CREATOR, ITEM}

RECURSIVE Join(_)
Join(ps) == IF ps = <<>> THEN <<>> ELSE Head(ps) \o Join(Tail(ps))

PieceSeqs == UNION {[1..n -> Pieces] : n \in 1..MaxPieces}

ParserIdle ==
    /\ vocab = {}
    /\ articles = <<>>
    /\ current_article = NewsArticle_new
    /\ current_tag = <<>>
    /\ in_item = FALSE
    /\ hung = FALSE
    /\ ev = Event("None", <<>>, <<>>)
    /\ n_events = 0
    /\ presult = Running
    /\ routed = <<>>
    /\ emitted = <<>>

CleanInit ==
    /\ client_type \in ClientTypes
    /\ pieces \in PieceSeqs
    /\ raw_tag = Join(pieces)
    /\ cleaned = None
    /\ ParserIdle
    /\ FetchIdle
    /\ PureIdle

\* self.clean_tag_name(raw_tag)
CleanCall ==
    /\ cleaned = None
    /\ cleaned' = Some(clean_tag_name(client_type, raw_tag))
    /\ UNCHANGED <<parserVars, raw_tag, pieces, fetchVars, pureVars>>

CleanNext == CleanCall

SpecClean == CleanInit /\ [][CleanNext]_vars

----------------------------------------------------------------------------
(* Properties of the parser.                                               *)
(* routed lists the (tag, value) pairs handed to set_article_field since   *)
(* the last <item> start and emitted[i] is that list as it was when        *)
(* articles[i] was pushed; the expected field values are read off them.    *)

\* Entry e of a log went to one of the tags in names (any letter case).
IsFor(e, names) == to_lowercase(e[1]) \in names

\* The positions of the entries of log that went to the tags in names.
PositionsFor(log, names) == {i \in 1..Len(log) : IsFor(log[i], names)}

\* The values that went to the tags in names, concatenated in order.
RECURSIVE ConcatFor(_, _)
ConcatFor(log, names) ==
    IF log = <<>> THEN <<>>
    ELSE (IF IsFor(Head(log), names) THEN Head(log)[2] ELSE <<>>)
         \o ConcatFor(Tail(log), names)

\* None if nothing went to the tags, else all of it concatenated.
ExpectedAccumulated(log, names) ==
    IF PositionsFor(log, names) = {} THEN None ELSE Some(ConcatFor(log, names))

\* None if nothing went to the tags, else the value that went there last.
ExpectedLast(log, names) ==
    LET ps == PositionsFor(log, names)
    IN IF ps = {} THEN None
       ELSE Some(log[CHOOSE i \in ps : \A j \in ps : j <= i][2])

\* The articles pushed so far, each with the log of its item.
Emitted == {<<articles[i], emitted[i]>> : i \in 1..Len(articles)}

\* Those and the article in progress.
Built == Emitted \cup {<<current_article, routed>>}

\* C1: in every article pushed at </item>, title, link and description each
\* hold the concatenation, in event order and with nothing in between, of
\* all the text/CDATA values that went to that tag inside the item (None if
\* there was none).
C1_Accumulation ==
    \A p \in Emitted :
        /\ p[1].title = ExpectedAccumulated(p[2], {TITLE})
        /\ p[1].link = ExpectedAccumulated(p[2], {LINK})
        /\ p[1].description = ExpectedAccumulated(p[2], {DESCRIPTION})

\* An emitted article whose title arrived in two events, "Hello" and "World".
C1_Witness ==
    \E p \in Emitted :
        /\ Cardinality(PositionsFor(p[2], {TITLE})) = 2
        /\ p[1].title = Some(HELLO_WORLD)

\* C2: pub_date, guid, category and author hold exactly the value of the
\* last text/CDATA event that went to pubDate, guid, category, or to author
\* or creator (None if there was none), in every article pushed and in the
\* article in progress.
C2_Overwrite ==
    \A p \in Built :
        /\ p[1].pub_date = ExpectedLast(p[2], {PUBDATE})
        /\ p[1].guid = ExpectedLast(p[2], {GUID})
        /\ p[1].category = ExpectedLast(p[2], {CATEGORY})
        /\ p[1].author = ExpectedLast(p[2], {AUTHOR, CREATOR})

\* An item in which author was written and then creator, with another
\* value: author holds the creator's value.
C2_Witness ==
    \E i, j \in 1..Len(routed) :
        /\ i < j /\ j = Len(routed)
        /\ to_lowercase(routed[i][1]) = AUTHOR
        /\ to_lowercase(routed[j][1]) = CREATOR
        /\ routed[i][2] # routed[j][2]
        /\ current_article.author = Some(routed[j][2])

\* The clean tag names with a field of their own, and the field of each.
FixedTags ==
    [title |-> {TITLE}, link |-> {LINK},
     description |-> {DESCRIPTION}, pub_date |-> {PUBDATE},
     guid |-> {GUID}, category |-> {CATEGORY},
     author |-> {AUTHOR, CREATOR}]

FixedTagNames == UNION {FixedTags[f] : f \in DOMAIN FixedTags}

\* The values that went to exactly the tag key, concatenated in order.
RECURSIVE ConcatKey(_, _)
ConcatKey(log, key) ==
    IF log = <<>> THEN <<>>
    ELSE (IF Head(log)[1] = key THEN Head(log)[2] ELSE <<>>)
         \o ConcatKey(Tail(log), key)

\* The extra_fields an item's log asks for.
ExpectedExtra(log) ==
    [key \in {log[i][1] : i \in {j \in 1..Len(log) : ~IsFor(log[j], FixedTagNames)}}
        |-> ConcatKey(log, key)]

\* C3: extra_fields has one key per tag outside the fixed schema that text
\* went to, holding the concatenation in order of all the values that went
\* to that tag inside the item, and a fixed field that no text went to is
\* None whatever went to other tags.
C3_ExtraFields ==
    \A p \in Built :
        /\ p[1].extra_fields = ExpectedExtra(p[2])
        /\ \A f \in DOMAIN FixedTags :
            PositionsFor(p[2], FixedTags[f]) = {} => p[1][f] = None

\* An emitted article of an item holding only foo, delivered in two events.
C3_Witness ==
    \E p \in Emitted :
        /\ Len(p[2]) = 2
        /\ \A i \in 1..2 : p[2][i][1] = FOO
        /\ p[1].extra_fields = (FOO :> (p[2][1][2] \o p[2][2][2]))
        /\ p[2][1][2] # <<>> /\ p[2][2][2] # <<>>
        /\ \A f \in DOMAIN FixedTags : p[1][f] = None

\* C5: the list of articles changes only when an </item> closes an open
\* item, and then by the article in progress being appended at its end.
C5_AppendInOrder ==
    [][IF ev'.kind = "End" /\ clean_tag_name(client_type, ev'.name) = ITEM /\ in_item
       THEN articles' = Append(articles, current_article)
       ELSE articles' = articles]_vars

\* Two items closed, the first with text and the second empty, returned in
\* that order.
C5_Witness ==
    /\ Len(articles) = 2
    /\ emitted[1] # <<>> /\ emitted[2] = <<>>
    /\ articles[1].extra_fields # <<>>
    /\ articles[2] = NewsArticle_new
    /\ presult = Ok(articles)

\* C6: end-of-document always returns success, and the list returned holds
\* the articles pushed at an </item> and nothing else, whether or not an
\* item is still open.
C6_OpenItemDropped ==
    /\ ev.kind = "Eof" => presult.kind = "Ok"
    /\ presult.kind = "Ok" =>
        /\ presult.articles = articles
        /\ Len(presult.articles) = Len(emitted)

\* <item><title>...</title> and then end-of-document: no article.
C6_Witness ==
    /\ ev.kind = "Eof" /\ in_item
    /\ current_article.title # None
    /\ presult = Ok(<<>>)

\* C7: a tokenizer error makes parse_response return the XmlParsing error,
\* which carries no article, and nothing is read after it.
C7_ErrorStops ==
    /\ [](ev.kind = "Err" => presult = Err("XmlParsing"))
    /\ [][ev.kind # "Err"]_vars

\* An error after an article was pushed.
C7_Witness ==
    /\ ev.kind = "Err" /\ Len(articles) >= 1
    /\ presult = Err("XmlParsing")

----------------------------------------------------------------------------
(* Properties of clean_tag_name *)

\* The namespace URIs configured for source identifier ct.
Configured(ct) ==
    IF ct \in DOMAIN namespaces
    THEN {namespaces[ct][i] : i \in 1..Len(namespaces[ct])}
    ELSE {}

\* The pieces that are no namespace URI configured for ct.
RECURSIVE Kept(_, _)
Kept(ps, ct) ==
    IF ps = <<>> THEN <<>>
    ELSE (IF Head(ps) \in Configured(ct) THEN <<>> ELSE <<Head(ps)>>)
         \o Kept(Tail(ps), ct)

\* The part of t after its last colon, all of t if it has none.
AfterLastColon(t) ==
    LET k == CHOOSE k \in 0..Len(t) :
                /\ k = 0 \/ t[k] = ":"
                /\ \A j \in (k + 1)..Len(t) : t[j] # ":"
    IN SubSeq(t, k + 1, Len(t))

\* C4: the clean tag name is the raw name without the namespace URIs
\* configured for the source (none for a source that is not in the table),
\* cut after its last colon.
C4_Normalization ==
    cleaned # None =>
        /\ cleaned[1] = AfterLastColon(Join(Kept(pieces, client_type)))
        /\ (client_type = WSJ /\ raw_tag = S("http://dowjones.net/rss/title"))
                => cleaned[1] = TITLE
        /\ raw_tag = DC_CREATOR => cleaned[1] = CREATOR

\* "http://dowjones.net/rss/title" cleaned for wsj.
C4_Witness ==
    /\ client_type = WSJ
    /\ pieces = <<NS_DOWJONES, TITLE>>
    /\ cleaned = Some(TITLE)

----------------------------------------------------------------------------
(* The news sources, src/src/news_source/*.rs *)

\* HashMap and Vec tables are sets of <<key, value>> pairs; get is a lookup
\* that answers None when the key is absent.
Keys(table) == {kv[1] : kv \in table}

Get(table, key) ==
    IF key \in Keys(table)
    THEN Some((CHOOSE kv \in table : kv[1] = key)[2])
    ELSE None

\* u32::to_string: the decimal digits, most significant first.
RECURSIVE to_string(_)
to_string(n) ==
    IF n < 10
    THEN <<DIGITS_LOWER[n + 1]>>
    ELSE to_string(n \div 10) \o <<DIGITS_LOWER[(n % 10) + 1]>>

\* The structs implementing NewsSource.
Sources ==
    {"CNBC", "SeekingAlpha", "CNNFinance", "GenericSource", "WallStreetJournal",
     "MarketWatch", "NASDAQ", "YahooFinance", "SPGlobal"}

\* NewsSource::name
name(src) ==
    CASE src = "CNBC" -> S("CNBC")
      [] src = "SeekingAlpha" -> S("Seeking Alpha")
      [] src = "CNNFinance" -> S("CNN Finance")
      [] src = "GenericSource" -> S("Generic")
      [] src = "WallStreetJournal" -> S("Wall Street Journal")
      [] src = "MarketWatch" -> S("MarketWatch")
      [] src = "NASDAQ" -> S("NASDAQ")
      [] src = "YahooFinance" -> S("Yahoo Finance")
      [] src = "SPGlobal" -> S("S&P Global")

\* The identifier each source builds its NewsParser with.
parser_type(src) ==
    CASE src = "CNBC" -> S("cnbc")
      [] src = "SeekingAlpha" -> S("seeking_alpha")
      [] src = "CNNFinance" -> S("cnn_finance")
      [] src = "GenericSource" -> S("generic")
      [] src = "WallStreetJournal" -> WSJ
      [] src = "MarketWatch" -> S("market_watch")
      [] src = "NASDAQ" -> S("nasdaq")
      [] src = "YahooFinance" -> S("yahoo")
      [] src = "SPGlobal" -> S("sp_global")

\* CNBC::with_config: topic_categories (cnbc.rs:37-62).
CNBC_topic_categories ==
    { <<S("top_news"), 100003114>>, <<S("world_news"), 100727362>>,
      <<S("us_news"), 15837362>>, <<S("asia_news"), 19832390>>,
      <<S("europe_news"), 19794221>>, <<S("business"), 10001147>>,
      <<S("earnings"), 15839135>>, <<S("commentary"), 100370673>>,
      <<S("economy"), 20910258>>, <<S("finance"), 10000664>>,
      <<S("technology"), 19854910>>, <<S("politics"), 10000113>>,
      <<S("health_care"), 10000108>>, <<S("real_estate"), 10000115>>,
      <<S("wealth"), 10001054>>, <<S("autos"), 10000101>>,
      <<S("energy"), 19836768>>, <<S("media"), 10000110>>,
      <<S("retail"), 10000116>>, <<S("travel"), 10000739>>,
      <<S("small_business"), 44877279>>, <<S("investing"), 15839069>>,
      <<S("financial_advisors"), 100646281>>,
      <<S("personal_finance"), 21324812>> }

\* MarketWatch::new: topic_categories (market_watch.rs:20-35).
MarketWatch_topic_categories ==
    { <<S("top_stories"), S("topstories")>>,
      <<S("real_time_headlines"), S("realtimeheadlines")>>,
      <<S("market_pulse"), S("marketpulse")>>,
      <<S("bulletins"), S("bulletins")>>,
      <<S("personal_finance"), S("pf")>>,
      <<S("stocks_to_watch"), S("StockstoWatch")>>,
      <<S("internet_stories"), S("Internet")>>,
      <<S("mutual_funds"), S("mutualfunds")>>,
      <<S("software_stories"), S("software")>>,
      <<S("banking_and_finance"), S("financial")>>,
      <<S("commentary"), S("commentary")>>,
      <<S("newsletter_and_research"), S("newslettersandresearch")>>,
      <<S("auto_reviews"), S("autoreviews")>> }

\* NewsSource::available_topics
available_topics(src) ==
    CASE src = "CNBC" -> Keys(CNBC_topic_categories)
      [] src = "SeekingAlpha" ->
            {S("latest-articles"), S("all-news"), S("market-news"),
             S("long-ideas"), S("short-ideas"), S("ipo-analysis"),
             S("transcripts"), S("wall-street-breakfast"),
             S("most-popular-articles"), S("forex"), S("editors-picks"),
             S("etfs")}
      [] src = "CNNFinance" ->
            {S("money_latest"), S("money_news_companies"),
             S("money_news_economy"), S("money_news_international"),
             S("money_news_investing"), S("money_markets"), S("money_media"),
             S("money_pf"), S("money_real_estate"), S("money_technology"),
             S("morning_buzz")}
      [] src = "GenericSource" -> {}
      [] src = "WallStreetJournal" ->
            {S("RSSOpinion"), S("RSSWorldNews"), S("WSJcomUSBusiness"),
             S("RSSMarketsMain"), S("RSSWSJD"), S("RSSLifestyle")}
      [] src = "MarketWatch" -> Keys(MarketWatch_topic_categories)
      [] src = "NASDAQ" ->
            {S("original"), S("commodities"), S("cryptocurrency"),
             S("dividends"), S("earnings"), S("economics"),
             S("financial-advisors"), S("innovation"), S("stocks"),
             S("technology")}
      [] src = "YahooFinance" ->
            {S("news"), S("market_summary"), S("topstories"), S("headline")}
      [] src = "SPGlobal" ->
            {S("methodologies"), S("all-indicies"), S("research"),
             S("market-commentary"), S("education"), S("performance-reports"),
             S("spiva"), S("index-tv"), S("corporate-news"),
             S("index-launches"), S("index-announcements"),
             S("new-consultations")}

\* NewsSource::url_map, for the sources that have one.
url_map(src) ==
    CASE src = "CNBC" ->
            { <<S("base"),
                S("https://www.cnbc.com/id/{topic_id}/device/rss/rss.html")>> }
      [] src = "SeekingAlpha" ->
            { <<S("base"), S("https://seekingalpha.com/feed.xml")>> }
      [] src = "CNNFinance" ->
            { <<S("base"), S("http://rss.cnn.com/rss/{topic}.rss")>>,
              <<S("buzz"), S("http://rss.cnn.com/cnnmoneymorningbuzz")>> }
      [] OTHER -> {}

\* The base_url field of the sources that keep one.
base_url(src) ==
    CASE src = "WallStreetJournal" -> S("https://feeds.a.dj.com/rss/{topic}.xml")
      [] src = "MarketWatch" ->
            S("http://feeds.marketwatch.com/marketwatch/{topic}/")
      [] src = "NASDAQ" -> S("https://www.nasdaq.com/feed/rssoutbound")
      [] src = "YahooFinance" -> S("https://feeds.finance.yahoo.com/rss/2.0")
      [] src = "SPGlobal" ->
            S("https://www.spglobal.com/spdji/en/rss/rss-details/")

\* NASDAQ.original_content_url
original_content_url == S("https://www.nasdaq.com/feed/nasdaq-original/rss.xml")

\* Result<String> and FanError::InvalidUrl(message).
OkUrl(u) == [kind |-> "Ok", url |-> u]
InvalidUrl(msg) == [kind |-> "Err", error |-> "InvalidUrl", message |-> msg]

\* .get(key).ok_or_else(|| FanError::InvalidUrl(message))
GetOrInvalid(table, key, msg) ==
    LET v == Get(table, key)
    IN IF v = None THEN InvalidUrl(msg) ELSE OkUrl(v[1])

\* NewsSource::build_topic_url, the default of the trait (mod.rs:58-66).
build_topic_url_default(src, t) ==
    LET base == GetOrInvalid(url_map(src), S("base"), S("Base URL not found"))
    IN IF base.kind = "Err"
       THEN base
       ELSE OkUrl(Replace(base.url, S("{topic}"), t))

\* CNBC::build_topic_url (cnbc.rs:117-127).
CNBC_build_topic_url(t) ==
    LET topic_id == Get(CNBC_topic_categories, t)
        base == GetOrInvalid(url_map("CNBC"), S("base"), S("Base URL not found"))
    IN IF topic_id = None
       THEN InvalidUrl(S("Invalid topic: ") \o t)
       ELSE IF base.kind = "Err"
       THEN base
       ELSE OkUrl(Replace(base.url, S("{topic_id}"), to_string(topic_id[1])))

\* SeekingAlpha::build_topic_url (seeking_alpha.rs:142-149).
SeekingAlpha_build_topic_url(t) ==
    LET base == GetOrInvalid(url_map("SeekingAlpha"), S("base"),
                             S("Base URL not found"))
    IN IF base.kind = "Err"
       THEN base
       ELSE OkUrl(base.url \o S("?category=") \o t)

\* A faulty CNNFinance::build_topic_url: no special case, every topic goes
\* through the template.
CNNFinance_build_topic_url_templated(t) ==
    build_topic_url_default("CNNFinance", t)

\* CNNFinance::build_topic_url (cnn_finance.rs:110-124).
CNNFinance_build_topic_url(t) ==
    IF t = S("morning_buzz")
    THEN GetOrInvalid(url_map("CNNFinance"), S("buzz"), S("Buzz URL not found"))
    ELSE LET base == GetOrInvalid(url_map("CNNFinance"), S("base"),
                                  S("Base URL not found"))
         IN IF base.kind = "Err"
            THEN base
            ELSE OkUrl(Replace(base.url, S("{topic}"), t))

\* build_topic_url as the source implements it.
build_topic_url(src, t) ==
    CASE src = "CNBC" -> CNBC_build_topic_url(t)
      [] src = "SeekingAlpha" -> SeekingAlpha_build_topic_url(t)
      [] src = "CNNFinance" -> CNNFinance_build_topic_url(t)
      [] OTHER -> build_topic_url_default(src, t)

\* The URL fetch_feed builds in the sources that implement it themselves:
\* wsj.rs:79, market_watch.rs:135, nasdaq.rs:133-139 (with 54 and 22),
\* yahoo_finance.rs:135-140 (with 28 and 77), sp_global.rs:88.
fetch_feed_url(src, t) ==
    CASE src = "WallStreetJournal" ->
            OkUrl(Replace(base_url(src), S("{topic}"), t))
      [] src = "MarketWatch" ->
            OkUrl(Replace(base_url(src), S("{topic}"), t))
      [] src = "NASDAQ" ->
            IF t = S("original")
            THEN OkUrl(original_content_url)
            ELSE OkUrl(base_url(src) \o S("?category=") \o t)
      [] src = "YahooFinance" ->
            IF t = S("news")
            THEN OkUrl(base_url(src) \o S("/headline"))
            ELSE IF t = S("market_summary")
            THEN OkUrl(base_url(src) \o S("/topstories"))
            ELSE OkUrl(base_url(src) \o S("/") \o t)
      [] src = "SPGlobal" ->
            OkUrl(base_url(src) \o S("?rssFeedName=") \o t)

\* MarketWatch::news_feed (market_watch.rs:47-56): the topic is looked up and
\* fetch_feed is called on the feed id found.
MarketWatch_news_feed_url(t) ==
    LET topic_id == Get(MarketWatch_topic_categories, t)
    IN IF topic_id = None
       THEN InvalidUrl(S("Invalid topic: ") \o t)
       ELSE fetch_feed_url("MarketWatch", topic_id[1])

\* The URL a call gets, or the error it returns before any request.
TopicUrl(src, meth, t) ==
    CASE meth = "fetch_topic" -> build_topic_url(src, t)
      [] meth = "fetch_feed" -> fetch_feed_url(src, t)
      [] meth = "news_feed" -> MarketWatch_news_feed_url(t)

----------------------------------------------------------------------------
(* One fetch-by-topic call: NewsSource::fetch_topic and fetch_feed_by_url  *)
(* (mod.rs:78-112) for the sources built on them, the source's own         *)
(* fetch_feed for the others (wsj.rs:78-96, market_watch.rs:134-156,       *)
(* nasdaq.rs:133-139, yahoo_finance.rs:135-163, sp_global.rs:87-120), and  *)
(* MarketWatch::news_feed (market_watch.rs:47-56).  All of them run the    *)
(* same four steps once the URL is built.                                  *)

\* The calls made: the method each source offers for fetching by topic.
Calls ==
    {<<src, "fetch_topic">> :
        src \in {"CNBC", "SeekingAlpha", "CNNFinance", "GenericSource"}}
    \cup {<<src, "fetch_feed">> :
        src \in {"WallStreetJournal", "MarketWatch", "NASDAQ", "YahooFinance",
                 "SPGlobal"}}
    \cup {<<"MarketWatch", "news_feed">>}

\* The topics tried on a source: two it lists, two no source lists, and for
\* MarketWatch a feed id, which is what news_feed hands to fetch_feed.
TopicsTried(src) ==
    {S("nonexistent"), S("global-markets-us")}
    \cup (CASE src = "CNBC" -> {S("top_news"), S("technology")}
            [] src = "SeekingAlpha" -> {S("latest-articles"), S("forex")}
            [] src = "CNNFinance" -> {S("money_latest"), S("morning_buzz")}
            [] src = "GenericSource" -> {}
            [] src = "WallStreetJournal" -> {S("RSSOpinion"), S("RSSWorldNews")}
            [] src = "MarketWatch" ->
                  {S("top_stories"), S("personal_finance"), S("topstories")}
            [] src = "NASDAQ" -> {S("original"), S("stocks")}
            [] src = "YahooFinance" -> {S("news"), S("headline")}
            [] src = "SPGlobal" -> {S("research"), S("spiva")})

\* The documents a server answers with, as the event streams the reader
\* produces for them: two items (the second without a title), no item, one
\* item followed by malformed XML, an item whose text never finishes
\* decoding, and an item left open at the end of the document.
TwoItems ==
    << Event("Start", ITEM, <<>>),
       Event("Start", TITLE, <<>>), Event("Text", <<>>, S("Hello")),
       Event("End", TITLE, <<>>), Event("End", ITEM, <<>>),
       Event("Start", ITEM, <<>>),
       Event("Start", LINK, <<>>), Event("CData", <<>>, S("World")),
       Event("End", LINK, <<>>), Event("End", ITEM, <<>>),
       Event("Eof", <<>>, <<>>) >>

NoItem == << Event("Start", S("rss"), <<>>), Event("End", S("rss"), <<>>),
             Event("Eof", <<>>, <<>>) >>

ItemThenError ==
    << Event("Start", ITEM, <<>>),
       Event("Start", TITLE, <<>>), Event("Text", <<>>, S("Hello")),
       Event("End", TITLE, <<>>), Event("End", ITEM, <<>>),
       Event("Err", <<>>, <<>>) >>

NeverDecoded ==
    << Event("Start", ITEM, <<>>),
       Event("Start", TITLE, <<>>), Event("Text", <<>>, S("&#x41 &#65")),
       Event("End", TITLE, <<>>), Event("End", ITEM, <<>>),
       Event("Eof", <<>>, <<>>) >>

OpenItem ==
    << Event("Start", ITEM, <<>>),
       Event("Start", TITLE, <<>>), Event("Text", <<>>, S("Hello")),
       Event("End", TITLE, <<>>),
       Event("Eof", <<>>, <<>>) >>

Documents == {TwoItems, NoItem, ItemThenError, NeverDecoded, OpenItem}

\* The call never returns.
Hang == [kind |-> "Hang"]

\* The loop of parse_response (parser.rs:162-239) run over a whole event
\* stream; a reader at the end of its input answers Eof.
RECURSIVE ParseLoop(_, _, _)
ParseLoop(ct, f, events) ==
    IF f.hung THEN Hang
    ELSE IF events = <<>> THEN on_eof(f)
    ELSE LET e == Head(events)
             rest == Tail(events)
         IN CASE e.kind = "Start" -> ParseLoop(ct, on_start(ct, f, e.name), rest)
              [] e.kind = "Text" -> ParseLoop(ct, on_text(f, e.text), rest)
              [] e.kind = "CData" -> ParseLoop(ct, on_cdata(f, e.text), rest)
              [] e.kind = "End" -> ParseLoop(ct, on_end(ct, f, e.name), rest)
              [] e.kind = "Eof" -> on_eof(f)
              [] e.kind = "Err" -> on_err(f)
              [] OTHER -> ParseLoop(ct, f, rest)

\* NewsParser::parse_response
parse_response(ct, events) == ParseLoop(ct, NewFrame, events)

\* A faulty question_mark: a failure becomes an empty result.
question_mark_swallow(r) == IF r.kind = "Err" THEN Ok(<<>>) ELSE r

\* expr? on a Result: an Err is what the function returns, as it is.
question_mark(r) == r

\* A faulty Stamp: an article without a title keeps the source it had.
Stamp_if_titled(article, n) ==
    IF article.title = None THEN article ELSE [article EXCEPT !.source = Some(n)]

\* article.source = Some(self.name().to_string())
Stamp(article, n) == [article EXCEPT !.source = Some(n)]

\* for article in &mut articles { ... }
StampAll(list, n) == [i \in 1..Len(list) |-> Stamp(list[i], n)]

\* The call is made: source.method(topic).
FetchInit ==
    /\ \E c \in Calls : source = c[1] /\ method = c[2]
    /\ topic \in TopicsTried(source)
    /\ fpc = "start" /\ url = None /\ requests = <<>> /\ net = "idle"
    /\ content = None /\ parsed = Running /\ fresult = Running
    /\ steps = <<>>
    /\ client_type = parser_type(source)
    /\ ParserIdle
    /\ CleanIdle
    /\ PureIdle

\* let url = self.build_topic_url(topic)?  (or the source's own URL code)
BuildUrl ==
    /\ fpc = "start"
    /\ LET r == TopicUrl(source, method, topic)
       IN IF r.kind = "Err"
          THEN /\ fresult' = question_mark(r)
               /\ fpc' = "done"
               /\ url' = url
          ELSE /\ url' = Some(r.url)
               /\ fpc' = "send"
               /\ fresult' = fresult
    /\ UNCHANGED <<source, method, topic, requests, net, content, parsed, steps>>

\* self.client().get(url).send().await succeeds.
SendOk ==
    /\ fpc = "send"
    /\ requests' = Append(requests, url[1])
    /\ net' = "sent"
    /\ steps' = Append(steps, "get")
    /\ fpc' = "text"
    /\ UNCHANGED <<source, method, topic, url, content, parsed, fresult>>

\* send() fails: connection, TLS, timeout.
SendFail ==
    /\ fpc = "send"
    /\ requests' = Append(requests, url[1])
    /\ net' = "send_failed"
    /\ fresult' = question_mark(Err("Http"))
    /\ fpc' = "done"
    /\ UNCHANGED <<source, method, topic, url, content, parsed, steps>>

\* response.text().await succeeds with some document.
TextOk ==
    /\ fpc = "text"
    /\ \E doc \in Documents : content' = Some(doc)
    /\ net' = "read"
    /\ steps' = Append(steps, "text")
    /\ fpc' = "parse"
    /\ UNCHANGED <<source, method, topic, url, requests, parsed, fresult>>

\* text() fails: the body cannot be read or decoded.
TextFail ==
    /\ fpc = "text"
    /\ net' = "read_failed"
    /\ fresult' = question_mark(Err("Http"))
    /\ fpc' = "done"
    /\ UNCHANGED <<source, method, topic, url, requests, content, parsed, steps>>

\* let mut articles = self.parser().parse_response(&content)?
ParseContent ==
    /\ fpc = "parse"
    /\ LET r == parse_response(client_type, content[1])
       IN /\ parsed' = r
          /\ CASE r.kind = "Hang" ->
                    /\ fpc' = "hung" /\ fresult' = fresult /\ steps' = steps
               [] r.kind = "Err" ->
                    /\ fpc' = "done" /\ fresult' = question_mark(r)
                    /\ steps' = steps
               [] r.kind = "Ok" ->
                    /\ fpc' = "stamp" /\ fresult' = fresult
                    /\ steps' = Append(steps, "parse")
    /\ UNCHANGED <<source, method, topic, url, requests, net, content>>

\* The loop setting the source of every article, then Ok(articles).
StampAndReturn ==
    /\ fpc = "stamp"
    /\ fresult' = Ok(StampAll(parsed.articles, name(source)))
    /\ steps' = Append(steps, "stamp")
    /\ fpc' = "done"
    /\ UNCHANGED <<source, method, topic, url, requests, net, content, parsed>>

FetchNext ==
    \/ BuildUrl /\ UNCHANGED <<parserVars, cleanVars, pureVars>>
    \/ SendOk /\ UNCHANGED <<parserVars, cleanVars, pureVars>>
    \/ SendFail /\ UNCHANGED <<parserVars, cleanVars, pureVars>>
    \/ TextOk /\ UNCHANGED <<parserVars, cleanVars, pureVars>>
    \/ TextFail /\ UNCHANGED <<parserVars, cleanVars, pureVars>>
    \/ ParseContent /\ UNCHANGED <<parserVars, cleanVars, pureVars>>
    \/ StampAndReturn /\ UNCHANGED <<parserVars, cleanVars, pureVars>>

SpecFetch == FetchInit /\ [][FetchNext]_vars

----------------------------------------------------------------------------
(* Properties of a fetch-by-topic call *)

\* The steps of a fetch that succeeds.
FetchSteps == <<"get", "text", "parse", "stamp">>

IsPrefix(s, t) == Len(s) <= Len(t) /\ SubSeq(t, 1, Len(s)) = s

\* The call was made with a topic the source does not list.
UnlistedTopic == fpc # "idle" /\ topic \notin available_topics(source)

\* C8: for every news source, a fetch with a topic key that is not among the
\* source's available topics returns an invalid-topic error, and the HTTP
\* request step is never reached.
C8_UnlistedTopicRejected ==
    UnlistedTopic =>
        /\ requests = <<>>
        /\ fpc \notin {"send", "text", "parse", "stamp", "hung"}
        /\ fpc = "done" => (fresult.kind = "Err" /\ fresult.error = "InvalidUrl")

\* C9: the steps of a fetch are taken in the order GET, read, parse, stamp,
\* and the list a successful fetch returns is the parser's list with the
\* source of every article set to the name of the news source.
C9_FetchThenStamp ==
    /\ IsPrefix(steps, FetchSteps)
    /\ fresult.kind = "Ok" =>
        /\ steps = FetchSteps
        /\ requests = <<url[1]>>
        /\ parsed.kind = "Ok"
        /\ Len(fresult.articles) = Len(parsed.articles)
        /\ \A i \in 1..Len(fresult.articles) :
              /\ parsed.articles[i].source = None
              /\ fresult.articles[i] =
                    [parsed.articles[i] EXCEPT !.source = Some(name(source))]

\* A fetch on the Wall Street Journal returned two articles, the second
\* without a title, both stamped.
C9_Witness ==
    /\ source = "WallStreetJournal"
    /\ fresult.kind = "Ok"
    /\ Len(fresult.articles) = 2
    /\ fresult.articles[2].title = None
    /\ fresult.articles[1].source = Some(S("Wall Street Journal"))
    /\ fresult.articles[2].source = Some(S("Wall Street Journal"))

\* C10: when the GET or the reading of the body fails, the fetch returns
\* the network error and the parser is never invoked; when the parser fails,
\* the fetch returns the parse error; a fetch returns a list only when the
\* body was read and the parser succeeded.
C10_FailuresPropagate ==
    /\ net \in {"send_failed", "read_failed"} =>
          /\ fresult = Err("Http")
          /\ parsed = Running
          /\ "parse" \notin {steps[i] : i \in 1..Len(steps)}
    /\ parsed.kind = "Err" => (parsed = Err("XmlParsing") /\ fresult = parsed)
    /\ fresult.kind = "Ok" => (net = "read" /\ parsed.kind = "Ok")

\* The GET succeeded and the body was read, but the document was malformed
\* after a complete item: the fetch returned the parse error.
C10_Witness ==
    /\ requests # <<>>
    /\ content = Some(ItemThenError)
    /\ parsed = Err("XmlParsing")
    /\ fresult = Err("XmlParsing")
    /\ fpc = "done"

----------------------------------------------------------------------------
(* Further properties of the parser *)

\* The articles a state holds: the open one, the pushed ones, the returned.
HeldArticles ==
    {current_article} \cup {articles[i] : i \in 1..Len(articles)}
    \cup (IF presult.kind = "Ok"
          THEN {presult.articles[i] : i \in 1..Len(presult.articles)}
          ELSE {})

\* C11: the parser never sets the source field: the open article, every
\* pushed article and every returned article has source None, also when the
\* item holds a <source> element, whose text goes to extra_fields.
C11_ParserLeavesSource ==
    \A a \in HeldArticles :
        /\ a.source = None
        /\ \A i \in 1..Len(routed) :
              (a = current_article /\ in_item /\ routed[i][1] = SOURCE)
                  => SOURCE \in DOMAIN a.extra_fields

\* A returned article whose <source> element held "Hello".
C11_Witness ==
    /\ presult.kind = "Ok"
    /\ Len(presult.articles) = 1
    /\ presult.articles[1].source = None
    /\ SOURCE \in DOMAIN presult.articles[1].extra_fields
    /\ presult.articles[1].extra_fields[SOURCE] = S("Hello")

\* C12: once an article is in the result list at index i, the value at
\* index i is the same after every later step of the call: the list never
\* shrinks and no event alters an article already in it.
C12_PushedNeverChange ==
    [][/\ Len(articles') >= Len(articles)
       /\ \A i \in 1..Len(articles) : articles'[i] = articles[i]]_vars

\* A second item is open and has received a text while the article of the
\* first item, pushed empty, still is as it was pushed.
C12_Witness ==
    /\ Len(articles) = 1
    /\ articles[1] = NewsArticle_new
    /\ in_item
    /\ ev.kind = "Text"
    /\ current_article # NewsArticle_new

\* C14: a text or CDATA event read while in_item is false changes neither
\* the open article nor the result list.
C14_OutsideItemDiscarded ==
    [][(ev'.kind \in {"Text", "CData"} /\ ~in_item)
          => (current_article' = current_article /\ articles' = articles)]_vars

\* A text read between items while a <title> outside any item is open: one
\* article in the list, nothing collected from the text.
C14_Witness ==
    /\ ev.kind = "Text"
    /\ ~in_item
    /\ current_tag = TITLE
    /\ Len(articles) = 1
    /\ routed = emitted[1]

----------------------------------------------------------------------------
(* parse_response on whole documents: every event stream up to a length *)

\* The longest document, in events before end-of-document.
MaxDocEvents == 5

GENERIC == S("generic")

\* The events documents are made of.
DocEvents ==
    { Event("Start", ITEM, <<>>), Event("End", ITEM, <<>>),
      Event("Start", TITLE, <<>>), Event("End", TITLE, <<>>),
      Event("Text", <<>>, S("Hello")), Event("CData", <<>>, S("World")) }

DocSeqs == UNION {[1..n -> DocEvents] : n \in 0..MaxDocEvents}

DocInit ==
    /\ client_type = GENERIC
    /\ document \in DocSeqs
    /\ document_result = Running
    /\ ParserIdle /\ CleanIdle /\ FetchIdle
    /\ SweepIdle /\ PreIdle /\ FieldIdle /\ SharedIdle /\ ClientIdle

\* self.parse_response(content)
ParseDocument ==
    /\ document_result = Running
    /\ document_result' = parse_response(client_type, document)
    /\ UNCHANGED <<parserVars, cleanVars, fetchVars, sweep_text, sweep_out,
                   pre_content, preprocessed, field_calls, field_article,
                   document, calls, news_client, accessed>>

DocNext == ParseDocument

SpecDoc == DocInit /\ [][DocNext]_vars

\* The positions of d holding an <item> start, and those holding an </item>.
ItemStarts(d) == {j \in 1..Len(d) : d[j] = Event("Start", ITEM, <<>>)}
ItemEnds(d) == {j \in 1..Len(d) : d[j] = Event("End", ITEM, <<>>)}

\* The </item> positions that close an open item: an <item> start precedes
\* with no </item> in between.
ClosingEnds(d) ==
    {j \in ItemEnds(d) :
        \E b \in ItemStarts(d) :
            b < j /\ \A k \in (b + 1)..(j - 1) : k \notin ItemEnds(d)}

\* The k-th smallest element of a set of numbers.
Kth(set, k) == CHOOSE j \in set : Cardinality({i \in set : i <= j}) = k

\* The events of the k-th emitted item: from the last <item> start before
\* the closing </item> up to that </item>.
ItemSegment(d, k) ==
    LET j == Kth(ClosingEnds(d), k)
        b == CHOOSE x \in ItemStarts(d) :
                x < j /\ \A y \in ItemStarts(d) : y < j => y <= x
    IN SubSeq(d, b, j)

\* C13: every emitted article is built only from the events between the
\* <item> start that created it and the </item> that emitted it: the k-th
\* article of a document equals the one article obtained from those events
\* alone, whatever stands before, between and after the items.
C13_ArticlesIndependent ==
    document_result.kind = "Ok" =>
        /\ Len(document_result.articles) = Cardinality(ClosingEnds(document))
        /\ \A k \in 1..Len(document_result.articles) :
              <<document_result.articles[k]>> =
                 parse_response(client_type, ItemSegment(document, k)).articles

\* Two items: the first received a text, the second nothing.
C13_Witness ==
    /\ document_result.kind = "Ok"
    /\ Len(document_result.articles) = 2
    /\ document_result.articles[1] # NewsArticle_new
    /\ document_result.articles[2] = NewsArticle_new

----------------------------------------------------------------------------
(* decode_unicode_entities on its own: one call on a text *)

\* The longest text, in pieces.
MaxSweepPieces == 3

\* What texts are put together from: well-formed references (hexadecimal,
\* decimal, one decoding to "&", one to a two-byte character), references
\* without their ";", tails that complete a reference after an "&",
\* references that are no number or no character, and plain characters.
SweepPieces ==
    { S("&#x41;"), S("&#x41"), S("&#66;"), S("&#65"), S("&#38;"), S("#65;"),
      S("#x41;"), S("&#233;"), S("&#xZZ;"), S("&#55296;"), SEMICOLON, S(" "),
      S("a") }

SweepTexts ==
    {Join(ps) : ps \in UNION {[1..n -> SweepPieces] : n \in 0..MaxSweepPieces}}

SweepInit ==
    /\ client_type = GENERIC
    /\ sweep_text \in SweepTexts
    /\ sweep_out = None
    /\ ParserIdle /\ CleanIdle /\ FetchIdle
    /\ PreIdle /\ FieldIdle /\ DocIdle /\ SharedIdle /\ ClientIdle

\* self.decode_unicode_entities(sweep_text): the call returns a text, or is
\* caught in a loop (hang).
SweepCall ==
    /\ sweep_out = None
    /\ sweep_out' = Some(decode_unicode_entities(sweep_text))
    /\ UNCHANGED <<parserVars, cleanVars, fetchVars, sweep_text, pre_content,
                   preprocessed, field_calls, field_article, document,
                   document_result, calls, news_client, accessed>>

SweepNext == SweepCall

SpecSweep == SweepInit /\ [][SweepNext]_vars

\* C15: the sweep terminates on every input text.
C15_SweepTerminates ==
    sweep_out # None => ~sweep_out[1].hang

\* One pass over a text from left to right: a reference, "&#" up to the
\* next ";", is replaced by its character or by nothing, every other
\* character is kept, and what a replacement produced is not read again.
RECURSIVE SinglePass(_)
SinglePass(t) ==
    IF t = <<>> THEN <<>>
    ELSE IF OccursAt(t, NUM_REF, 1) /\ EntityAt(t, 1) # <<>>
    THEN LET e == EntityAt(t, 1)
             hex == OccursAt(e, HEX_REF, 1)
             digits == SubSeq(e, IF hex THEN 4 ELSE 3, Len(e) - 1)
         IN Decoded(digits, IF hex THEN 16 ELSE 10)
            \o SinglePass(SubSeq(t, Len(e) + 1, Len(t)))
    ELSE <<Head(t)>> \o SinglePass(Tail(t))

\* C16: when the sweep returns, its result is the input with every numeric
\* character reference replaced by its character, every unresolvable one
\* deleted and everything else unchanged, nothing being decoded twice.
C16_SweepResult ==
    (sweep_out # None /\ ~sweep_out[1].hang)
        => sweep_out[1].text = SinglePass(sweep_text)

----------------------------------------------------------------------------
(* The sweep and the payloads routed into an article *)

\* C17: every payload routed into an article while inside an item, from a
\* text event or from a CDATA event alike, is stored swept: the open article
\* after the event is the one before it with the swept payload set in the
\* field of the current tag.
C17_PayloadsSwept ==
    [][(/\ ev'.kind \in {"Text", "CData"}
        /\ in_item /\ current_tag # <<>>
        /\ ~decode_unicode_entities(ev'.text).hang)
          => current_article' =
                set_article_field(current_article, current_tag,
                                  decode_unicode_entities(ev'.text).text)]_vars

----------------------------------------------------------------------------
(* NewsParser::preprocess_unicode_entities, parser.rs:269-279 *)

\* The replace calls of lines 270-278, in their order: what is replaced and
\* what replaces it.
QuoteTable ==
    << <<S("&#x2018;"), S("'")>>, <<S("&#x2019;"), S("'")>>,
       <<S("&#x201C;"), S("\"")>>, <<S("&#x201D;"), S("\"")>>,
       <<S("&#8216;"), S("'")>>, <<S("&#8217;"), S("'")>>,
       <<S("&#8220;"), S("\"")>>, <<S("&#8221;"), S("\"")>> >>

\* content.replace(..).replace(..)...: one str::replace after the other.
RECURSIVE ReplaceEach(_, _)
ReplaceEach(text, table) ==
    IF table = <<>> THEN text
    ELSE ReplaceEach(Replace(text, Head(table)[1], Head(table)[2]),
                     Tail(table))

\* A faulty preprocess_unicode_entities: the decimal forms are left out.
preprocess_hex_only(text) == ReplaceEach(text, SubSeq(QuoteTable, 1, 4))

preprocess_unicode_entities(text) == ReplaceEach(text, QuoteTable)

\* The longest content, in pieces.
MaxPrePieces == 3

\* What contents are put together from: the eight references, plain text, a
\* reference in another letter case, one without its ";", and a ";".
PrePieces ==
    {QuoteTable[i][1] : i \in 1..Len(QuoteTable)}
    \cup {S("don"), S("t"), S("&#x201c;"), S("&#8217"), SEMICOLON}

PreContents ==
    {Join(ps) : ps \in UNION {[1..n -> PrePieces] : n \in 0..MaxPrePieces}}

PreInit ==
    /\ client_type = GENERIC
    /\ pre_content \in PreContents
    /\ preprocessed = None
    /\ ParserIdle /\ CleanIdle /\ FetchIdle
    /\ SweepIdle /\ FieldIdle /\ DocIdle /\ SharedIdle /\ ClientIdle

\* let preprocessed_content = self.preprocess_unicode_entities(content)
PreCall ==
    /\ preprocessed = None
    /\ preprocessed' = Some(preprocess_unicode_entities(pre_content))
    /\ UNCHANGED <<parserVars, cleanVars, fetchVars, sweep_text, sweep_out,
                   pre_content, field_calls, field_article, document,
                   document_result, calls, news_client, accessed>>

PreNext == PreCall

SpecPre == PreInit /\ [][PreNext]_vars

\* The eight smart-quote references.
SmartQuoteRefs == {QuoteTable[i][1] : i \in 1..Len(QuoteTable)}

APOSTROPHE == S("'")
QUOTE == S("\"")

\* What a smart-quote reference stands for: the four single quotation marks
\* an apostrophe, the four double ones a double quote.
QuoteFor(ref) ==
    IF ref \in {S("&#x2018;"), S("&#x2019;"), S("&#8216;"), S("&#8217;")}
    THEN APOSTROPHE ELSE QUOTE

\* One pass from left to right: a smart-quote reference becomes its quote,
\* any other character stays.
RECURSIVE QuotePass(_)
QuotePass(t) ==
    IF t = <<>> THEN <<>>
    ELSE LET here == {r \in SmartQuoteRefs : OccursAt(t, r, 1)}
         IN IF here = {}
            THEN <<Head(t)>> \o QuotePass(Tail(t))
            ELSE LET r == CHOOSE x \in here : TRUE
                 IN QuoteFor(r) \o QuotePass(SubSeq(t, Len(r) + 1, Len(t)))

DON_T_REF == S("don&#8217;t")
DON_T == S("don't")

\* The open article of a call that is inside an item with <title> open,
\* after a text event with the given payload.
TitleAfterText(payload) ==
    on_text([NewFrame EXCEPT !.in_item = TRUE, !.current_tag = TITLE],
            payload).current_article.title

\* C18: preprocessing replaces every occurrence of the eight smart-quote
\* references by an apostrophe or a double quote: its result holds none of
\* the eight and is otherwise the input, and the text don&#8217;t reaches a
\* title as don't.
C18_SmartQuotesReplaced ==
    preprocessed # None =>
        /\ \A r \in SmartQuoteRefs : Find(preprocessed[1], r) = 0
        /\ preprocessed[1] = QuotePass(pre_content)
        /\ pre_content = DON_T_REF
              => TitleAfterText(preprocessed[1]) = Some(DON_T)

\* don&#8217;t was preprocessed to don't.
C18_Witness ==
    /\ pre_content = DON_T_REF
    /\ preprocessed = Some(DON_T)

----------------------------------------------------------------------------
(* set_article_field on its own: calls on one article *)

\* The most calls made on the article.
MaxFieldCalls == 3

\* The clean tag names passed: fixed-field names in several letter cases and
\* names without a field that differ in letter case only.
FieldTags ==
    { S("TITLE"), S("Title"), S("PubDate"), S("Guid"), S("CREATOR"),
      S("Foo"), FOO, S("FOO") }

FieldValues == {S("a"), S("b")}

FieldInit ==
    /\ client_type = GENERIC
    /\ field_calls = <<>>
    /\ field_article = NewsArticle_new
    /\ ParserIdle /\ CleanIdle /\ FetchIdle
    /\ SweepIdle /\ PreIdle /\ DocIdle /\ SharedIdle /\ ClientIdle

\* self.set_article_field(&mut article, tag, value)
SetField ==
    /\ Len(field_calls) < MaxFieldCalls
    /\ \E tag \in FieldTags, value \in FieldValues :
        /\ field_article' = set_article_field(field_article, tag, value)
        /\ field_calls' = Append(field_calls, <<tag, value>>)
    /\ UNCHANGED <<parserVars, cleanVars, fetchVars, sweep_text, sweep_out,
                   pre_content, preprocessed, document, document_result,
                   calls, news_client, accessed>>

FieldNext == SetField

SpecField == FieldInit /\ [][FieldNext]_vars

\* The tags passed so far that have no field of their own in any letter
\* case, as spelled.
UnrecognizedTags ==
    {field_calls[i][1] : i \in {j \in 1..Len(field_calls) :
                                  to_lowercase(field_calls[j][1])
                                      \notin FixedTagNames}}

\* C19: a tag equal to a fixed-field name in any letter case fills the
\* fixed field and creates no extra_fields key, and the extra_fields keys
\* are the unrecognized tags as spelled, each holding what went to exactly
\* that spelling, so tags differing in letter case have keys of their own.
C19_DispatchIgnoresCase ==
    /\ field_article.title = ExpectedAccumulated(field_calls, {TITLE})
    /\ field_article.pub_date = ExpectedLast(field_calls, {PUBDATE})
    /\ field_article.guid = ExpectedLast(field_calls, {GUID})
    /\ field_article.author = ExpectedLast(field_calls, {AUTHOR, CREATOR})
    /\ DOMAIN field_article.extra_fields = UnrecognizedTags
    /\ \A key \in DOMAIN field_article.extra_fields :
          /\ to_lowercase(key) \notin FixedTagNames
          /\ field_article.extra_fields[key] = ConcatKey(field_calls, key)

\* TITLE filled the title; Foo and foo have a key each, with its own value.
C19_Witness ==
    /\ field_calls = << <<S("TITLE"), S("a")>>, <<S("Foo"), S("a")>>,
                        <<FOO, S("b")>> >>
    /\ field_article.title = Some(S("a"))
    /\ DOMAIN field_article.extra_fields = {S("Foo"), FOO}
    /\ field_article.extra_fields[S("Foo")] = S("a")
    /\ field_article.extra_fields[FOO] = S("b")

----------------------------------------------------------------------------
(* One NewsParser shared by several parse_response calls.  parse_response  *)
(* takes &self: the parser's client_type and namespaces are only read, and *)
(* articles, current_article, current_tag, in_item and the reader are      *)
(* locals of each call (parser.rs:153-160).  A step is one call reading    *)
(* its next event; the calls' steps interleave in any order.               *)

\* The number of calls in progress on the parser.
MaxCalls == 2

\* The documents the calls parse.
SharedDocs == {TwoItems, NoItem, ItemThenError, NeverDecoded, OpenItem}

\* A call that has read nothing yet.
NewCall(d) == [doc |-> d, pos |-> 0, frame |-> NewFrame, result |-> Running]

SharedInit ==
    /\ client_type \in {WSJ, GENERIC}
    /\ calls \in [1..MaxCalls -> {NewCall(d) : d \in SharedDocs}]
    /\ ParserIdle /\ CleanIdle /\ FetchIdle
    /\ SweepIdle /\ PreIdle /\ FieldIdle /\ DocIdle /\ ClientIdle

\* A faulty locals: the loop's variables are kept in the parser, where every
\* call finds those of the first.
locals_in_parser(cs, c) == cs[1].frame

\* The locals of call c.
locals(cs, c) == cs[c].frame

\* One iteration of the loop of parse_response on event e: the locals after
\* it and what the call returned, if it did.
Iteration(ct, f, e) ==
    CASE e.kind = "Start" ->
            [frame |-> on_start(ct, f, e.name), result |-> Running]
      [] e.kind = "Text" -> [frame |-> on_text(f, e.text), result |-> Running]
      [] e.kind = "CData" -> [frame |-> on_cdata(f, e.text), result |-> Running]
      [] e.kind = "End" -> [frame |-> on_end(ct, f, e.name), result |-> Running]
      [] e.kind = "Eof" -> [frame |-> f, result |-> on_eof(f)]
      [] e.kind = "Err" -> [frame |-> f, result |-> on_err(f)]
      [] OTHER -> [frame |-> f, result |-> Running]

\* Call c reads its next event; a reader at the end of its input answers Eof.
SharedStep ==
    \E c \in DOMAIN calls :
        /\ calls[c].result = Running
        /\ ~calls[c].frame.hung
        /\ LET d == calls[c].doc
               i == calls[c].pos + 1
               e == IF i > Len(d) THEN Event("Eof", <<>>, <<>>) ELSE d[i]
               after == Iteration(client_type, locals(calls, c), e)
           IN calls' = [calls EXCEPT ![c] = [doc |-> d, pos |-> i,
                                             frame |-> after.frame,
                                             result |-> after.result]]
        /\ UNCHANGED <<parserVars, cleanVars, fetchVars, sweep_text, sweep_out,
                       pre_content, preprocessed, field_calls, field_article,
                       document, document_result, news_client, accessed>>

SharedNext == SharedStep

SpecShared == SharedInit /\ [][SharedNext]_vars

\* What call c comes to when it runs alone.
Alone(c) == parse_response(client_type, calls[c].doc)

\* C20: whatever the interleaving of the calls on one parser, each call
\* returns what it returns when run alone (and is caught in a loop only if
\* it is when run alone), and no step changes the parser's source
\* identifier.
C20_CallsDoNotInterfere ==
    /\ [](\A c \in DOMAIN calls :
            /\ calls[c].result # Running => calls[c].result = Alone(c)
            /\ calls[c].frame.hung => Alone(c) = Hang)
    /\ [][client_type' = client_type]_vars

\* The first call returned the two articles of its document while the
\* second, on another document, was in the middle of an item.
C20_Witness ==
    /\ calls[1].doc = TwoItems
    /\ calls[1].result.kind = "Ok"
    /\ Len(calls[1].result.articles) = 2
    /\ calls[2].doc = ItemThenError
    /\ calls[2].result = Running
    /\ calls[2].frame.in_item
    /\ calls[2].frame.current_article.title = Some(S("Hello"))

----------------------------------------------------------------------------
(* What parse_response keeps: no filtering of the articles *)

\* The events of an item that is opened and closed with nothing in between.
EmptyItem == <<Event("Start", ITEM, <<>>), Event("End", ITEM, <<>>)>>

\* C21: every <item> ... </item> pair that opens and closes an item yields
\* one article in the result, also when it has neither title nor
\* description: the result has as many articles as the document has closing
\* </item> events, and the article of an empty <item></item> has every field
\* None and no extra field.
C21_NoFiltering ==
    document_result.kind = "Ok" =>
        /\ Len(document_result.articles) = Cardinality(ClosingEnds(document))
        /\ \A k \in 1..Cardinality(ClosingEnds(document)) :
              ItemSegment(document, k) = EmptyItem =>
                  /\ \A f \in FixedFields \cup {"source"} :
                        document_result.articles[k][f] = None
                  /\ DOMAIN document_result.articles[k].extra_fields = {}

\* The document <item></item> gave one article, all of it empty.
C21_Witness ==
    /\ document = EmptyItem
    /\ document_result = Ok(<<NewsArticle_new>>)

----------------------------------------------------------------------------
(* The special-case endpoints of CNN Finance and NASDAQ *)

MORNING_BUZZ == S("morning_buzz")
ORIGINAL == S("original")
BUZZ_URL == S("http://rss.cnn.com/cnnmoneymorningbuzz")
ORIGINAL_URL == S("https://www.nasdaq.com/feed/nasdaq-original/rss.xml")

\* The URL the claim gives a call, for the two sources with a special case.
ExpectedUrl ==
    IF source = "CNNFinance"
    THEN IF topic = MORNING_BUZZ
         THEN BUZZ_URL
         ELSE S("http://rss.cnn.com/rss/") \o topic \o S(".rss")
    ELSE IF topic = ORIGINAL
         THEN ORIGINAL_URL
         ELSE S("https://www.nasdaq.com/feed/rssoutbound?category=") \o topic

\* C22: CNN Finance resolves "morning_buzz" to the fixed buzz URL and every
\* other topic to the base template with {topic} replaced by it; NASDAQ
\* requests the fixed original-content URL for "original" and base_url +
\* "?category=" + c for every other category c.  The special URL goes with
\* the special topic only, and a request is made to no other URL.
C22_SpecialEndpoints ==
    (source \in {"CNNFinance", "NASDAQ"} /\ fpc \notin {"idle", "start"}) =>
        /\ url = Some(ExpectedUrl)
        /\ \A i \in 1..Len(requests) : requests[i] = ExpectedUrl
        /\ source = "CNNFinance" => (url = Some(BUZZ_URL) <=> topic = MORNING_BUZZ)
        /\ source = "NASDAQ" => (url = Some(ORIGINAL_URL) <=> topic = ORIGINAL)

\* CNN Finance was asked for morning_buzz and the request went to the buzz
\* URL.
C22_Witness ==
    /\ source = "CNNFinance"
    /\ topic = MORNING_BUZZ
    /\ requests = <<BUZZ_URL>>

----------------------------------------------------------------------------
(* NewsClient, news_client.rs:12-211: the accessors of the source clients. *)
(* A source client is a record of the struct built and of the number of    *)
(* accessor calls made before it was built, which tells one instance from  *)
(* another built later.                                                    *)

\* The most accessor calls made on the NewsClient.
MaxAccessorCalls == 4

\* The accessors: the field each fills and the struct it builds.
Accessors ==
    [wsj |-> [field |-> "wsj_client", struct |-> "WallStreetJournal"],
     cnbc |-> [field |-> "cnbc_client", struct |-> "CNBC"],
     nasdaq |-> [field |-> "nasdaq_client", struct |-> "NASDAQ"],
     market_watch |-> [field |-> "market_watch_client",
                       struct |-> "MarketWatch"],
     seeking_alpha |-> [field |-> "seeking_alpha_client",
                        struct |-> "SeekingAlpha"],
     cnn_finance |-> [field |-> "cnn_finance_client", struct |-> "CNNFinance"],
     yahoo_finance |-> [field |-> "yahoo_finance_client",
                        struct |-> "YahooFinance"]]

\* Struct::new(self.http_client.clone()), built after k accessor calls.
SourceClient_new(struct, k) == [struct |-> struct, built_after |-> k]

\* A faulty accessor: the source client is built anew at every call.
accessor_rebuild(nc, a, k) ==
    [nc EXCEPT ![Accessors[a].field] =
                   Some(SourceClient_new(Accessors[a].struct, k))]

\* "if self.x_client.is_none() { self.x_client = Some(X::new(..)) }", the
\* body every accessor has.
accessor(nc, a, k) ==
    IF nc[Accessors[a].field] = None
    THEN [nc EXCEPT ![Accessors[a].field] =
                        Some(SourceClient_new(Accessors[a].struct, k))]
    ELSE nc

\* The call client.a() for accessor a.
Access(a) ==
    /\ Len(accessed) < MaxAccessorCalls
    /\ news_client' = accessor(news_client, a, Len(accessed))
    /\ accessed' = Append(accessed, a)
    /\ UNCHANGED <<parserVars, cleanVars, fetchVars, sweep_text, sweep_out,
                   pre_content, preprocessed, field_calls, field_article,
                   document, document_result, calls>>

wsj == Access("wsj")
cnbc == Access("cnbc")
nasdaq == Access("nasdaq")
market_watch == Access("market_watch")
seeking_alpha == Access("seeking_alpha")
cnn_finance == Access("cnn_finance")
yahoo_finance == Access("yahoo_finance")

\* NewsClient::new()
ClientInit ==
    /\ client_type = GENERIC
    /\ news_client = NewsClient_new
    /\ accessed = <<>>
    /\ ParserIdle /\ CleanIdle /\ FetchIdle
    /\ SweepIdle /\ PreIdle /\ FieldIdle /\ DocIdle /\ SharedIdle

ClientNext ==
    \/ wsj
    \/ cnbc
    \/ nasdaq
    \/ market_watch
    \/ seeking_alpha
    \/ cnn_finance
    \/ yahoo_finance

SpecClient == ClientInit /\ [][ClientNext]_vars

\* The positions of the calls of accessor a made so far.
CallsOf(a) == {i \in 1..Len(accessed) : accessed[i] = a}

\* C23: a new NewsClient has every source client None; after any sequence
\* of accessor calls a source client is there if and only if its own
\* accessor was called, and it is the one the first of those calls built;
\* a call changes no field but its own and none that is filled.
C23_LazyIndependent ==
    /\ [](accessed = <<>> => news_client = NewsClient_new)
    /\ [](\A a \in DOMAIN Accessors :
            LET slot == news_client[Accessors[a].field]
            IN /\ slot # None <=> CallsOf(a) # {}
               /\ slot # None =>
                     /\ slot[1].struct = Accessors[a].struct
                     /\ slot[1].built_after + 1 \in CallsOf(a)
                     /\ \A i \in CallsOf(a) : slot[1].built_after < i)
    /\ [][\A a \in DOMAIN Accessors :
            (accessed' # Append(accessed, a)
                \/ news_client[Accessors[a].field] # None)
              => news_client'[Accessors[a].field]
                    = news_client[Accessors[a].field]]_vars

\* wsj was called, then cnbc, then wsj again: the two are there, the
\* Wall Street Journal client is the one of the first call, the rest None.
C23_Witness ==
    /\ accessed = <<"wsj", "cnbc", "wsj">>
    /\ news_client =
          [NewsClient_new EXCEPT
              !.wsj_client = Some(SourceClient_new("WallStreetJournal", 0)),
              !.cnbc_client = Some(SourceClient_new("CNBC", 1))]

----------------------------------------------------------------------------
(* The current tag between an end tag and the next start tag *)

\* <item><title>Hello<b>x</b>World</title></item>
MixedContent ==
    << Event("Start", ITEM, <<>>), Event("Start", TITLE, <<>>),
       Event("Text", <<>>, S("Hello")),
       Event("Start", S("b"), <<>>), Event("Text", <<>>, S("x")),
       Event("End", S("b"), <<>>),
       Event("Text", <<>>, S("World")),
       Event("End", TITLE, <<>>), Event("End", ITEM, <<>>) >>

\* C24: every element-end event leaves the current tag empty, and inside an
\* item a text or CDATA event read while the current tag is empty (which
\* it is from an end tag to the next start tag) leaves the open article as
\* it was; in <title>Hello<b>x</b>World</title> the title is "Hello" and
\* "World" is in no field.
C24_TextAfterEndDiscarded ==
    /\ [](ev.kind = "End" => current_tag = <<>>)
    /\ [][(ev'.kind \in {"Text", "CData"} /\ in_item
             /\ (ev.kind = "End" \/ current_tag = <<>>))
           => (current_article' = current_article /\ routed' = routed)]_vars
    /\ [][(ev'.kind \notin {"Start", "End"} /\ current_tag = <<>>)
           => current_tag' = <<>>]_vars
    /\ [](parse_response(GENERIC, MixedContent) =
            Ok(<<[NewsArticle_new EXCEPT
                     !.title = Some(S("Hello")),
                     !.extra_fields = (S("b") :> S("x"))]>>))

\* Inside an item the title received "Hello", an element ended, and the
\* CDATA "World" that followed went nowhere.
C24_Witness ==
    /\ ev = Event("CData", <<>>, S("World"))
    /\ in_item
    /\ current_tag = <<>>
    /\ routed = << <<TITLE, S("Hello")>> >>
    /\ current_article = [NewsArticle_new EXCEPT !.title = Some(S("Hello"))]

----------------------------------------------------------------------------
(* Items do not nest.  Every prefix of a document is a document too, so a  *)
(* property of the result at the end of every document is a property of    *)
(* the list of articles after every event read.                            *)

\* The pairs <<b, c>> of <item> starts of d with no </item> in between: the
\* item opened at b is still open at c.
NestedStarts(d) ==
    {p \in ItemStarts(d) \X ItemStarts(d) :
        p[1] < p[2] /\ \A k \in (p[1] + 1)..(p[2] - 1) : k \notin ItemEnds(d)}

\* d without the events from position b up to but not including position c.
Without(d, b, c) == SubSeq(d, 1, b - 1) \o SubSeq(d, c, Len(d))

\* The </item> positions of d read while no item is open.
IdleEnds(d) == ItemEnds(d) \ ClosingEnds(d)

\* C25: an <item> start read while an item is open drops what the open
\* item gathered (the result is that of the document without the open item
\* up to the new start), the first </item> after it emits one article, an
\* </item> read while no item is open emits nothing (the result is that of
\* the document cut before it and continued after it), and there are never
\* more articles than <item> starts or than </item> ends.
C25_ItemsDoNotNest ==
    document_result.kind = "Ok" =>
        /\ \A p \in NestedStarts(document) :
              document_result =
                 parse_response(client_type, Without(document, p[1], p[2]))
        /\ \A j \in IdleEnds(document) :
              /\ parse_response(client_type, SubSeq(document, 1, j)) =
                    parse_response(client_type, SubSeq(document, 1, j - 1))
              /\ document_result =
                    parse_response(client_type, Without(document, j, j + 1))
        /\ Len(document_result.articles) <= Cardinality(ItemStarts(document))
        /\ Len(document_result.articles) <= Cardinality(ItemEnds(document))

\* <item>Hello<item></item></item>: one article, empty.
C25_Witness ==
    /\ document = << Event("Start", ITEM, <<>>),
                     Event("Text", <<>>, S("Hello")),
                     Event("Start", ITEM, <<>>),
                     Event("End", ITEM, <<>>), Event("End", ITEM, <<>>) >>
    /\ document_result = Ok(<<NewsArticle_new>>)

----------------------------------------------------------------------------
(* clean_tag_name applied to its own result *)

\* C26: for every raw tag name and every source identifier the clean tag
\* name holds no colon, and cleaning it again returns it unchanged.
C26_CleanIsIdempotent ==
    cleaned # None =>
        /\ \A i \in 1..Len(cleaned[1]) : cleaned[1][i] # ":"
        /\ clean_tag_name(client_type, cleaned[1]) = cleaned[1]

\* A Dublin Core URI name cleaned for a source that does not configure the
\* URI: the scheme goes with the colon, the rest stays and is clean.
C26_Witness ==
    /\ client_type = GENERIC
    /\ pieces = <<NS_DC, CREATOR>>
    /\ cleaned = Some(S("//purl.org/dc/elements/1.1/creator"))

----------------------------------------------------------------------------
(* parse_response on a feed that spells its item element in upper case *)

\* The feed: <ITEM> and <Item> elements with a <title>, read by a parser of
\* a source without namespaces.
UpperCaseFeed == [client |-> GENERIC, vocab |-> {S("ITEM"), S("Item"), TITLE}]

UpperInit ==
    /\ client_type = UpperCaseFeed.client
    /\ vocab = UpperCaseFeed.vocab
    /\ articles = NewFrame.articles
    /\ current_article = NewFrame.current_article
    /\ current_tag = NewFrame.current_tag
    /\ in_item = NewFrame.in_item
    /\ hung = NewFrame.hung
    /\ ev = Event("None", <<>>, <<>>)
    /\ n_events = 0
    /\ presult = Running
    /\ routed = <<>>
    /\ emitted = <<>>
    /\ CleanIdle /\ FetchIdle /\ PureIdle

SpecUpper == UpperInit /\ [][Next]_vars

\* The event read in this step is a start or end tag whose clean name is
\* item in another letter case than the one the parser compares with.
OtherCaseItem ==
    /\ ev'.kind \in {"Start", "End"}
    /\ to_lowercase(clean_tag_name(client_type, ev'.name)) = ITEM
    /\ clean_tag_name(client_type, ev'.name) # ITEM

\* The event read in this step is an <item> start, spelled as compared.
ExactItemStart ==
    ev'.kind = "Start" /\ clean_tag_name(client_type, ev'.name) = ITEM

\* C27: a start or end tag named ITEM or Item changes neither the
\* inside-item flag nor the list of articles nor the open article; as long
\* as no tag named exactly item is read no item is open and the list is
\* empty, so a feed of <ITEM> elements returns the empty list.
C27_ItemIsCaseSensitive ==
    /\ [][OtherCaseItem =>
            /\ in_item' = in_item
            /\ articles' = articles
            /\ current_article' = current_article]_vars
    /\ [][(articles = <<>> /\ ~in_item /\ ~ExactItemStart)
            => (/\ articles' = <<>> /\ ~in_item'
                /\ current_article' = NewsArticle_new
                /\ presult'.kind = "Ok" => presult'.articles = <<>>)]_vars

\* </ITEM> was read, not as the first event, and there is no article.
C27_Witness ==
    /\ ev = Event("End", S("ITEM"), <<>>)
    /\ n_events >= 2
    /\ articles = <<>>
    /\ ~in_item
    /\ current_article = NewsArticle_new

----------------------------------------------------------------------------
(* Text directly inside <item> *)

\* C28: an <item> start makes item the current tag, and as long as it is,
\* every text or CDATA payload read is kept: the open article holds nothing
\* but extra_fields["item"], the concatenation of the payloads read since
\* the <item> start, the last being that of the event just read.
C28_TextInItemKept ==
    /\ (ev.kind = "Start" /\ clean_tag_name(client_type, ev.name) = ITEM)
          => (in_item /\ current_tag = ITEM /\ routed = <<>>)
    /\ (in_item /\ current_tag = ITEM /\ ~hung) =>
          /\ \A i \in 1..Len(routed) : routed[i][1] = ITEM
          /\ ev.kind \in {"Text", "CData"} =>
                /\ routed # <<>>
                /\ routed[Len(routed)][2] = Routed(ev.kind, ev.text)
          /\ current_article =
                [NewsArticle_new EXCEPT
                    !.extra_fields =
                        IF routed = <<>> THEN <<>>
                        ELSE (ITEM :> ConcatKey(routed, ITEM))]

\* <item>Hello: the open article has extra_fields["item"] = "Hello".
C28_Witness ==
    /\ n_events = 2
    /\ ev = Event("Text", <<>>, S("Hello"))
    /\ in_item
    /\ current_article =
          [NewsArticle_new EXCEPT !.extra_fields = (ITEM :> S("Hello"))]

----------------------------------------------------------------------------
(* decode_unicode_entities applied to its own result *)

\* The positions of t where a numeric character reference starts that is
\* complete: "&#", then a ";" further on.
References(t) ==
    {i \in 1..Len(t) : OccursAt(t, NUM_REF, i) /\ EntityAt(t, i) # <<>>}

\* The first "&#" of t is what the decimal loop takes for a hexadecimal
\* reference and skips, and t has no "&#" after it.
OnlySkipped(t) ==
    LET start == Find(t, NUM_REF)
        nth == ByteOffset(t, start) + 3
    IN /\ start # 0
       /\ nth <= Len(t) /\ t[nth] = "x"
       /\ Find(SubSeq(t, start + 1, Len(t)), NUM_REF) = 0

----------------------------------------------------------------------------
(* The two entry points of MarketWatch *)

\* The URL of the feed the topic key k stands for.
FeedUrlOf(k) ==
    S("http://feeds.marketwatch.com/marketwatch/")
    \o Get(MarketWatch_topic_categories, k)[1] \o S("/")

\* C30: for MarketWatch, a call with a topic key of available_topics(), on
\* news_feed and on the fetch method of the NewsSource trait alike, requests
\* the base template with {topic} replaced by the feed id the key maps to.
C30_EntryPointsAgree ==
    (/\ source = "MarketWatch"
     /\ topic \in available_topics("MarketWatch")
     /\ fpc \notin {"idle", "start"}) =>
        /\ url = Some(FeedUrlOf(topic))
        /\ \A i \in 1..Len(requests) : requests[i] = FeedUrlOf(topic)

====
